---- MODULE Spec2Model ----
(***************************************************************************)
(* State-machine model of stk (stacked branches CLI): the stack model and  *)
(* its manager (internal/stack), the Git driver as far as its effects on   *)
(* refs and HEAD go (internal/git), the atomic rebase engine (rebaseStack, *)
(* runRebase, rollbackStack) and the sync reconciler (runSync), in both    *)
(* versions found in the sources.                                          *)
(*                                                                         *)
(* Branch names are integers: Base is the stack's base branch, 1..N are    *)
(* the stack's branches, NoBranch is the empty string (CurrentBranch() on  *)
(* a detached HEAD, an unset flag).  A SHA is a positive integer, 0     *)
(* stands for "no such ref" (rev-parse fails).  External processes (git,   *)
(* the forge) are inputs: where the code branches on their exit status,    *)
(* both outcomes are explored.  Writes of the stack file succeed, except   *)
(* in TakeSnapshot, whose error the engine branches on.                    *)
(***************************************************************************)
EXTENDS Integers, Sequences, FiniteSets, TLC

MaxBranches == 3

Base == 0
NoBranch == 0 - 1
Unknown == MaxBranches + 1
Names == 1..MaxBranches
Refs == 0..MaxBranches

NoPR == [number |-> 0, state |-> "none"]
PRNumber(b) == 100 + b
GetResults == {"open", "merged", "closed", "err"}

NoSnapshot == [taken |-> FALSE, refs |-> [n \in {} |-> 0]]
EmptyStack == [branches |-> << >>, snapshot |-> NoSnapshot]
\* no refs/remotes/origin/<base>
NoRemoteBase == [exists |-> FALSE, rel |-> "equal", behind |-> 0]

NoFlags == [noRebase |-> FALSE, deleteMerged |-> FALSE, noPush |-> FALSE,
            from |-> NoBranch, to |-> NoBranch, noAtomic |-> FALSE]

VARIABLES
    cmd,              \* the command being run
    flags,            \* its flags
    pc,               \* position in the command
    result,           \* "running", "ok", "error" (RunE returned an error), "exit" (os.Exit(1))
    disk,             \* the stack file <git_dir>/stacks/<name>.yaml
    stk,              \* the *stack.Stack the command holds in memory
    refs,             \* git: refs/heads/<name> -> SHA, 0 when the branch does not exist
    head,             \* git: the checked-out branch
    rebaseInProgress, \* git: a rebase-merge or rebase-apply directory exists
    provider,         \* getProvider() returned a provider
    mergedBranches,   \* runSync: names classified merged
    closedBranches,   \* runSync: names classified closed
    i,                \* loop index of the current loop (0-based)
    originalBranch,   \* the branch recorded before the engine or the base update
    startIdx,         \* engine: first index to rebase
    endIdx,           \* engine: last index to rebase
    trace,            \* history: the git and forge calls issued, in order
    h,                \* history: facts about the run's start and outcome
    remoteBase,       \* git: how origin/<base> stands to the local base
    branchInfos,      \* runSubmit: the []pr.PRBranchInfo handed to the renderer
    files,            \* storage: stack name -> the file <git_dir>/stacks/<name>.yaml
    current,          \* storage: what <git_dir>/stacks/current holds
    now               \* the clock that time.Now() reads

vars == <<cmd, flags, pc, result, disk, stk, refs, head, rebaseInProgress,
          provider, mergedBranches, closedBranches, i, originalBranch,
          startIdx, endIdx, trace, h, remoteBase, branchInfos, files, current, now>>

\* the variables only submit reads and writes
submitVars == <<remoteBase, branchInfos>>

\* the variables only the storage and the timestamps read and write
storeVars == <<files, current, now>>

\* the stacks of the repository
StackNames == {"a", "b"}

\* no file, no current marker
NoFile == [exists |-> FALSE]
NoCurrent == ""

\* the commands that work on one loaded stack leave the other files, the
\* marker and the clock out of the picture
NoStore ==
    /\ files = [n \in StackNames |-> NoFile]
    /\ current = NoCurrent
    /\ now = 0

(***************************************************************************)
(* internal/stack/types.go                                                 *)
(***************************************************************************)
Len0(s) == Len(s.branches)

\* the branch at 0-based index k
At(s, k) == s.branches[k + 1]

BranchNames(s) == {s.branches[k].name : k \in 1..Len(s.branches)}

NameSeq(s) == [k \in 1..Len(s.branches) |-> s.branches[k].name]

FindBranch(s, name) ==
    IF \E k \in 1..Len(s.branches) : s.branches[k].name = name
    THEN (CHOOSE k \in 1..Len(s.branches) :
              /\ s.branches[k].name = name
              /\ \A m \in 1..(k - 1) : s.branches[m].name # name) - 1
    ELSE 0 - 1

HasPR(b) == b.pr # NoPR /\ b.pr.number > 0

(***************************************************************************)
(* internal/stack/manager.go: each operation yields the stack after the    *)
(* call; the caller writes it to disk (storage.Save).                      *)
(***************************************************************************)
\* a removal that also drops everything after index k
RemoveAtTruncates(seq, k) == [m \in 1..(k - 1) |-> seq[m]]

RemoveAt(seq, k) == [m \in 1..(Len(seq) - 1) |-> IF m < k THEN seq[m] ELSE seq[m + 1]]

\* a removal that drops the last entry whatever the name found
RemoveBranchLast(s, name) ==
    LET idx == FindBranch(s, name)
    IN  IF idx < 0 THEN s
        ELSE [s EXCEPT !.branches = SubSeq(@, 1, Len(@) - 1)]

RemoveBranch(s, name) ==
    LET idx == FindBranch(s, name)
    IN  IF idx < 0 THEN s
        ELSE [s EXCEPT !.branches = RemoveAt(s.branches, idx + 1)]

\* an update that ignores a nil PR
UpdatePRKeepsOnNil(s, name, pr) ==
    LET idx == FindBranch(s, name)
    IN  IF idx < 0 \/ pr = NoPR THEN s
        ELSE [s EXCEPT !.branches[idx + 1].pr = pr]

UpdatePR(s, name, pr) ==
    LET idx == FindBranch(s, name)
    IN  IF idx < 0 THEN s
        ELSE [s EXCEPT !.branches[idx + 1].pr = pr]

\* getSHA fails for a ref that does not resolve
TakeSnapshotFails(s, r) == \E n \in {Base} \cup BranchNames(s) : r[n] = 0

\* a snapshot that records the stack's branches and forgets the base
TakeSnapshotBranchesOnly(s, r) ==
    [s EXCEPT !.snapshot = [taken |-> TRUE,
                            refs |-> [n \in BranchNames(s) |-> r[n]]]]

TakeSnapshot(s, r) ==
    [s EXCEPT !.snapshot = [taken |-> TRUE,
                            refs |-> [n \in {Base} \cup BranchNames(s) |-> r[n]]]]

\* a ClearSnapshot that also drops the PR records
ClearSnapshotDropsPRs(s) ==
    [s EXCEPT !.snapshot = NoSnapshot,
              !.branches = [k \in DOMAIN s.branches |-> [s.branches[k] EXCEPT !.pr = NoPR]]]

ClearSnapshot(s) == [s EXCEPT !.snapshot = NoSnapshot]

(***************************************************************************)
(* Initial states: a current stack of n branches on Base, some with an     *)
(* open PR on record; the last one may have no branch in git (missing).    *)
(***************************************************************************)
InitStack(n, withPR) ==
    [branches |-> [k \in 1..n |->
                      [name |-> k,
                       pr |-> IF k \in withPR
                              THEN [number |-> PRNumber(k), state |-> "open"]
                              ELSE NoPR]],
     snapshot |-> NoSnapshot]

\* head, branches: HEAD and the stack's names when the command starts;
\* engine, preRefs, rip: the engine was entered, the refs and the rebase-in-progress
\* marker at that moment; snapFailed, rolledBack, resetFailed: TakeSnapshot
\* failed, rollbackStack ran, one of its resets failed; retargetFailed: a
\* Retarget call failed; mark: the length of trace when the current merged
\* branch's iteration began; prs: the branches with a PR record at the start;
\* err: what the returned error names; updateFailed: an Update call failed;
\* persisted: the snapshot the stack file held when the command started
NoHistory == [head |-> NoBranch, branches |-> << >>, prs |-> {}, err |-> << >>,
              updateFailed |-> FALSE, persisted |-> NoSnapshot,
              preRefs |-> [n \in Refs |-> 0],
              rip |-> FALSE, snapFailed |-> FALSE, rolledBack |-> FALSE,
              resetFailed |-> FALSE, engine |-> FALSE, retargetFailed |-> FALSE,
              mark |-> 0]

InitCommon(n, withPR, missing) ==
    /\ pc = "start"
    /\ result = "running"
    /\ disk = InitStack(n, withPR)
    /\ stk = EmptyStack
    /\ refs = [b \in Refs |-> IF b <= n /\ b \notin missing THEN 1 ELSE 0]
    /\ head \in {NoBranch, Base} \cup ((1..n) \ missing)
    /\ rebaseInProgress \in BOOLEAN
    /\ provider = FALSE
    /\ mergedBranches = << >>
    /\ closedBranches = << >>
    /\ i = 0
    /\ originalBranch = NoBranch
    /\ startIdx = 0
    /\ endIdx = 0 - 1
    /\ trace = << >>
    /\ remoteBase = NoRemoteBase
    /\ branchInfos = << >>
    /\ NoStore
    /\ h = [NoHistory EXCEPT !.head = head, !.branches = [k \in 1..n |-> k],
                             !.prs = withPR]

SyncFlags == {[NoFlags EXCEPT !.noRebase = a, !.deleteMerged = b] : a, b \in BOOLEAN}

RebaseFlags(n) == {[NoFlags EXCEPT !.from = f, !.to = t, !.noAtomic = a] :
                       f \in {NoBranch, Unknown} \cup (1..n),
                       t \in {NoBranch, Unknown} \cup (1..n), a \in BOOLEAN}

Init ==
    \E n \in 0..MaxBranches : \E withPR \in SUBSET (1..n) :
      \E missing \in {{}, {n}} \cap SUBSET (1..n) :
        /\ InitCommon(n, withPR, missing)
        /\ \/ cmd = "sync" /\ flags \in SyncFlags
           \/ cmd = "rebase" /\ flags \in RebaseFlags(n) /\ withPR \in {{}, 1..n}

(***************************************************************************)
(* Git driver (internal/git): effects on refs and HEAD.                    *)
(***************************************************************************)
BranchExists(r, b) == b \in Refs /\ r[b] # 0

\* a checkout that never moves HEAD
CheckoutSilentStays(r, hd, b) == hd

\* CheckoutSilent(branch) with its error discarded: HEAD moves iff the branch exists
CheckoutSilent(r, hd, b) == IF BranchExists(r, b) THEN b ELSE hd

\* DeleteBranch(name, force): git refuses to delete the checked-out branch
DeleteBranch(r, hd, b) ==
    IF BranchExists(r, b) /\ hd # b THEN [r EXCEPT ![b] = 0] ELSE r

Log(e) == trace' = Append(trace, e)

Finish(res) == pc' = "done" /\ result' = res

(***************************************************************************)
(* runSync, cli/sync.go as of the sync/submit split.                       *)
(***************************************************************************)
\* RequireStack, RequireCleanTree, step 1.  The fetch, skipped by --no-fetch,
\* moves remote-tracking refs only, which are not part of the state; its
\* failure only warns.
SyncStart ==
    /\ pc = "start"
    /\ cmd = "sync"
    /\ stk' = disk
    /\ \E clean \in BOOLEAN :
          IF ~clean
          THEN Finish("exit")
          ELSE pc' = "updateBase" /\ result' = result
    /\ UNCHANGED <<storeVars, submitVars, cmd, flags, disk, refs, head, rebaseInProgress, provider,
                   mergedBranches, closedBranches, i, originalBranch,
                   startIdx, endIdx, trace, h>>

\* step 2: checkout base, pull --rebase, return to the original branch.
\* A failing pull only warns; where a pull leaves the base is not tracked, the
\* base's SHA being read only to be stored in the snapshot.
UpdateBase(next) ==
    \E checkoutOK \in BOOLEAN :
       /\ originalBranch' = head
       /\ IF ~checkoutOK
          THEN /\ Finish("error")
               /\ Log(<<"checkout", Base, 0>>)
               /\ UNCHANGED <<refs, head>>
          ELSE /\ pc' = next
               /\ result' = result
               /\ trace' = trace \o << <<"checkout", Base, 0>>, <<"pull", Base, 0>> >>
               /\ refs' = refs
               /\ head' = IF head # NoBranch /\ head # Base
                          THEN CheckoutSilent(refs, Base, head)
                          ELSE Base

SyncUpdateBase ==
    /\ pc = "updateBase"
    /\ cmd = "sync"
    /\ \E remoteBranchExists \in BOOLEAN :
          IF ~flags.noRebase /\ remoteBranchExists
          THEN UpdateBase("provider")
          ELSE /\ pc' = "provider"
               /\ UNCHANGED <<result, trace, refs, head, originalBranch>>
    /\ UNCHANGED <<storeVars, submitVars, cmd, flags, disk, stk, rebaseInProgress, provider,
                   mergedBranches, closedBranches, i, startIdx, endIdx, h>>

\* step 3, first part: getProvider
SyncGetProvider ==
    /\ pc = "provider"
    /\ cmd = "sync"
    /\ provider' \in BOOLEAN
    /\ mergedBranches' = << >>
    /\ closedBranches' = << >>
    /\ i' = 0
    /\ pc' = "refresh"
    /\ UNCHANGED <<storeVars, submitVars, cmd, flags, result, disk, stk, refs, head, rebaseInProgress,
                   originalBranch, startIdx, endIdx, trace, h>>

\* the same loop with a failing Get ending it
SyncRefreshStopsOnError ==
    /\ pc = "refresh"
    /\ IF ~provider \/ i >= Len0(stk)
       THEN /\ pc' = "merged"
            /\ i' = 0
            /\ UNCHANGED <<stk, disk, mergedBranches, closedBranches, trace>>
       ELSE LET branch == At(stk, i)
            IN  IF ~HasPR(branch)
                THEN /\ pc' = pc
                     /\ i' = i + 1
                     /\ UNCHANGED <<stk, disk, mergedBranches, closedBranches, trace>>
                ELSE \E remoteState \in GetResults :
                       /\ Log(<<"get", branch.pr.number, remoteState>>)
                       /\ pc' = IF remoteState = "err" THEN "merged" ELSE pc
                       /\ i' = IF remoteState = "err" THEN 0 ELSE i + 1
                       /\ IF remoteState = "err"
                          THEN UNCHANGED <<stk, disk, mergedBranches, closedBranches>>
                          ELSE /\ stk' = UpdatePR(stk, branch.name,
                                           [number |-> branch.pr.number, state |-> remoteState])
                               /\ disk' = stk'
                               /\ mergedBranches' =
                                    IF remoteState = "merged"
                                    THEN Append(mergedBranches, branch.name)
                                    ELSE mergedBranches
                               /\ closedBranches' =
                                    IF remoteState = "closed"
                                    THEN Append(closedBranches, branch.name)
                                    ELSE closedBranches
    /\ UNCHANGED <<storeVars, submitVars, cmd, flags, result, refs, head, rebaseInProgress, provider,
                   originalBranch, startIdx, endIdx, h>>

\* step 3: one iteration of the loop over stk.Branches
SyncRefresh ==
    /\ pc = "refresh"
    /\ IF ~provider \/ i >= Len0(stk)
       THEN /\ pc' = "merged"
            /\ i' = 0
            /\ UNCHANGED <<stk, disk, mergedBranches, closedBranches, trace>>
       ELSE LET branch == At(stk, i)
            IN  /\ pc' = pc
                /\ i' = i + 1
                /\ IF ~HasPR(branch)
                   THEN UNCHANGED <<stk, disk, mergedBranches, closedBranches, trace>>
                   ELSE \E remoteState \in GetResults :
                          /\ Log(<<"get", branch.pr.number, remoteState>>)
                          /\ IF remoteState = "err"
                             THEN UNCHANGED <<stk, disk, mergedBranches, closedBranches>>
                             ELSE /\ stk' = UpdatePR(stk, branch.name,
                                              [number |-> branch.pr.number, state |-> remoteState])
                                  /\ disk' = stk'
                                  /\ mergedBranches' =
                                       IF remoteState = "merged"
                                       THEN Append(mergedBranches, branch.name)
                                       ELSE mergedBranches
                                  /\ closedBranches' =
                                       IF remoteState = "closed"
                                       THEN Append(closedBranches, branch.name)
                                       ELSE closedBranches
    /\ UNCHANGED <<storeVars, submitVars, cmd, flags, result, refs, head, rebaseInProgress, provider,
                   originalBranch, startIdx, endIdx, h>>

\* the loop over the downstream branches without its "only immediate child" test
RetargetCallsAll(s, idx) ==
    LET newBase == IF idx > 0 THEN At(s, idx - 1).name ELSE Base
        calls(k) == IF HasPR(At(s, k))
                    THEN << <<"retarget", At(s, k).pr.number,
                              IF k > idx + 1 THEN At(s, k - 1).name ELSE newBase>> >>
                    ELSE << >>
        RECURSIVE from(_)
        from(k) == IF k >= Len0(s) THEN << >> ELSE calls(k) \o from(k + 1)
    IN  from(idx + 1)

\* the retarget calls of one merged branch found at index idx of the live stack s
RetargetCalls(s, idx) ==
    LET newBase == IF idx > 0 THEN At(s, idx - 1).name ELSE Base
        calls(k) == IF HasPR(At(s, k)) /\ k = idx + 1
                    THEN << <<"retarget", At(s, k).pr.number, newBase>> >>
                    ELSE << >>
        RECURSIVE from(_)
        from(k) == IF k >= Len0(s) THEN << >> ELSE calls(k) \o from(k + 1)
    IN  from(idx + 1)

\* the same step with a failing Retarget ending the iteration
SyncMergedRetargetSkips ==
    /\ pc = "merged"
    /\ IF i >= Len(mergedBranches)
       THEN /\ pc' = "closed"
            /\ i' = 0
            /\ UNCHANGED <<stk, trace, h>>
       ELSE LET branchName == mergedBranches[i + 1]
                idx == FindBranch(disk, branchName)
                calls == IF provider THEN RetargetCalls(disk, idx) ELSE << >>
            IN  /\ stk' = disk
                /\ IF idx < 0
                   THEN /\ pc' = pc
                        /\ i' = i + 1
                        /\ UNCHANGED <<trace, h>>
                   ELSE /\ trace' = trace \o calls
                        /\ \E failed \in BOOLEAN :
                             /\ failed => calls # << >>
                             /\ pc' = IF failed THEN "merged" ELSE "mergedRemove"
                             /\ i' = IF failed THEN i + 1 ELSE i
                             /\ h' = [h EXCEPT !.mark = Len(trace),
                                               !.retargetFailed = @ \/ failed]
    /\ UNCHANGED <<storeVars, submitVars, cmd, flags, result, disk, refs, head, rebaseInProgress, provider,
                   mergedBranches, closedBranches, originalBranch, startIdx, endIdx>>

\* step 4, one iteration of the loop over mergedBranches, first half: reload
\* the stack, find the branch, retarget; a failing Retarget only warns
SyncMergedRetarget ==
    /\ pc = "merged"
    /\ IF i >= Len(mergedBranches)
       THEN /\ pc' = "closed"
            /\ i' = 0
            /\ UNCHANGED <<stk, trace, h>>
       ELSE LET branchName == mergedBranches[i + 1]
                idx == FindBranch(disk, branchName)
                calls == IF provider THEN RetargetCalls(disk, idx) ELSE << >>
            IN  /\ stk' = disk
                /\ IF idx < 0
                   THEN /\ pc' = pc
                        /\ i' = i + 1
                        /\ UNCHANGED <<trace, h>>
                   ELSE /\ pc' = "mergedRemove"
                        /\ i' = i
                        /\ trace' = trace \o calls
                        /\ \E failed \in BOOLEAN :
                             /\ failed => calls # << >>
                             /\ h' = [h EXCEPT !.mark = Len(trace),
                                               !.retargetFailed = @ \/ failed]
    /\ UNCHANGED <<storeVars, submitVars, cmd, flags, result, disk, refs, head, rebaseInProgress, provider,
                   mergedBranches, closedBranches, originalBranch, startIdx, endIdx>>

\* second half: remove the branch from the stack, optionally delete it in git
SyncMergedRemove ==
    /\ pc = "mergedRemove"
    /\ LET branchName == mergedBranches[i + 1]
       IN  /\ stk' = RemoveBranch(stk, branchName)
           /\ disk' = stk'
           /\ refs' = IF flags.deleteMerged
                      THEN DeleteBranch(refs, head, branchName)
                      ELSE refs
           /\ trace' = trace \o << <<"remove", branchName, 0>> >>
                             \o (IF flags.deleteMerged
                                 THEN << <<"delete", branchName, 0>> >>
                                 ELSE << >>)
    /\ pc' = "merged"
    /\ i' = i + 1
    /\ UNCHANGED <<storeVars, submitVars, cmd, flags, result, head, rebaseInProgress, provider,
                   mergedBranches, closedBranches, originalBranch, startIdx, endIdx, h>>

\* step 5 left out: the closed PR records stay
SyncClosedSkips ==
    /\ pc = "closed"
    /\ pc' = "reload"
    /\ i' = 0
    /\ UNCHANGED <<storeVars, submitVars, cmd, flags, result, stk, disk, refs, head,
                   rebaseInProgress, provider, mergedBranches, closedBranches,
                   originalBranch, startIdx, endIdx, trace, h>>

\* step 5: one iteration of the loop over closedBranches
SyncClosed ==
    /\ pc = "closed"
    /\ IF i >= Len(closedBranches)
       THEN /\ pc' = "reload"
            /\ i' = 0
            /\ UNCHANGED <<stk, disk>>
       ELSE /\ pc' = pc
            /\ i' = i + 1
            /\ stk' = UpdatePR(stk, closedBranches[i + 1], NoPR)
            /\ disk' = IF FindBranch(stk, closedBranches[i + 1]) < 0 THEN disk ELSE stk'
    /\ UNCHANGED <<storeVars, submitVars, cmd, flags, result, refs, head, rebaseInProgress, provider,
                   mergedBranches, closedBranches, originalBranch, startIdx, endIdx,
                   trace, h>>

\* reload, step 6 and the entry of rebaseStack
SyncRebase ==
    /\ pc = "reload"
    /\ stk' = disk
    /\ IF ~flags.noRebase /\ Len0(stk') > 0
       THEN /\ pc' = "snapshot"
            /\ result' = result
            /\ originalBranch' = head
            /\ startIdx' = 0
            /\ endIdx' = Len0(stk') - 1
            /\ h' = [h EXCEPT !.engine = TRUE, !.preRefs = refs, !.rip = rebaseInProgress]
       ELSE /\ Finish("ok")
            /\ UNCHANGED <<originalBranch, startIdx, endIdx, h>>
    /\ UNCHANGED <<storeVars, submitVars, cmd, flags, disk, refs, head, rebaseInProgress, provider,
                   mergedBranches, closedBranches, i, trace>>

(***************************************************************************)
(* The rebase engine: rebaseStack (cli/sync.go), runRebase and             *)
(* rollbackStack (cli/rebase.go).                                          *)
(***************************************************************************)
\* runRebase up to the snapshot: RequireStack, RequireCleanTree, the range
RunRebaseBegin(emptyNext) ==
    /\ stk' = disk
    /\ \E clean \in BOOLEAN :
          IF ~clean
          THEN Finish("exit") /\ UNCHANGED <<originalBranch, startIdx, endIdx, h>>
          ELSE IF Len0(stk') = 0
          THEN /\ IF emptyNext = "done" THEN Finish("ok")
                  ELSE pc' = emptyNext /\ result' = result
               /\ UNCHANGED <<originalBranch, startIdx, endIdx, h>>
          ELSE LET from == IF flags.from # NoBranch THEN FindBranch(stk', flags.from) ELSE 0
                   to == IF flags.to # NoBranch THEN FindBranch(stk', flags.to)
                         ELSE Len0(stk') - 1
               IN  /\ originalBranch' = head
                   /\ IF from < 0 \/ to < 0 \/ from > to
                      THEN Finish("error") /\ UNCHANGED <<startIdx, endIdx, h>>
                      ELSE /\ pc' = "snapshot"
                           /\ result' = result
                           /\ startIdx' = from
                           /\ endIdx' = to
                           /\ h' = [h EXCEPT !.engine = TRUE, !.preRefs = refs, !.rip = rebaseInProgress]

RebaseStart ==
    /\ pc = "start"
    /\ cmd = "rebase"
    /\ RunRebaseBegin("done")
    /\ UNCHANGED <<storeVars, submitVars, cmd, flags, disk, refs, head, rebaseInProgress, provider,
                   mergedBranches, closedBranches, i, trace>>

\* Manager().TakeSnapshot(stk, Git().SHA), skipped by --no-atomic
EngineSnapshot ==
    /\ pc = "snapshot"
    /\ IF flags.noAtomic
       THEN /\ pc' = "rebase"
            /\ i' = startIdx
            /\ UNCHANGED <<result, stk, disk, trace, h>>
       ELSE IF TakeSnapshotFails(stk, refs)
       THEN /\ Finish("error")
            /\ h' = [h EXCEPT !.snapFailed = TRUE]
            /\ UNCHANGED <<i, stk, disk, trace>>
       ELSE \E saved \in BOOLEAN :
              /\ stk' = TakeSnapshot(stk, refs)
              /\ IF saved
                 THEN /\ disk' = stk'
                      /\ pc' = "rebase"
                      /\ i' = startIdx
                      /\ Log(<<"snapshot", 0, 0>>)
                      /\ UNCHANGED <<result, h>>
                 ELSE /\ Finish("error")
                      /\ h' = [h EXCEPT !.snapFailed = TRUE]
                      /\ UNCHANGED <<i, disk, trace>>
    /\ UNCHANGED <<storeVars, submitVars, cmd, flags, refs, head, rebaseInProgress, provider,
                   mergedBranches, closedBranches, originalBranch, startIdx, endIdx>>

\* every branch rebased straight onto the base
OntoOfBase(s, k) == Base

\* the branch that index k of the stack is rebased onto
OntoOf(s, k) == IF k = 0 THEN Base ELSE At(s, k - 1).name

\* one iteration of the rebase loop: Git().RebaseBranchOnto(branch, base).
\* The checkout fails when the branch does not exist; git rebase fails on a
\* conflict, on a missing base and while another rebase is in progress.
EngineRebase ==
    /\ pc = "rebase"
    /\ i <= endIdx
    /\ LET branch == At(stk, i).name
           base == OntoOf(stk, i)
       IN  /\ Log(<<"rebase", branch, base>>)
           /\ \E outcome \in {"ok", "checkout", "conflict"} :
                /\ outcome # "checkout" => BranchExists(refs, branch)
                /\ outcome = "ok" => (BranchExists(refs, base) /\ ~rebaseInProgress)
                /\ IF outcome = "ok"
                   THEN /\ refs' = [refs EXCEPT ![branch] = @ + 1]
                        /\ head' = branch
                        /\ i' = i + 1
                        /\ UNCHANGED <<pc, result, rebaseInProgress>>
                   ELSE /\ head' = IF outcome = "conflict" THEN branch ELSE head
                        /\ rebaseInProgress' = (rebaseInProgress \/ outcome = "conflict")
                        /\ IF flags.noAtomic THEN Finish("error")
                           ELSE pc' = "rollback" /\ result' = result
                        /\ UNCHANGED <<refs, i>>
    /\ UNCHANGED <<storeVars, submitVars, cmd, flags, disk, stk, provider, mergedBranches, closedBranches,
                   originalBranch, startIdx, endIdx, h>>

\* a reset that leaves the branch where the failed run left it
ResetBranchKeeps(r, b, sha) == r

\* git checkout -q <branch>; git reset --hard <sha>
ResetBranchToSHA(r, b, sha) == [r EXCEPT ![b] = sha]

\* a rollback that also puts the stack file back as the command found it
EngineRollbackRestoresStack ==
    /\ pc = "rollback"
    /\ Finish("error")
    /\ IF ~stk.snapshot.taken
       THEN UNCHANGED <<stk, disk, refs, head, rebaseInProgress, trace, h>>
       ELSE LET targets == DOMAIN stk.snapshot.refs \ {Base}
                returns == originalBranch # NoBranch /\ BranchExists(refs, originalBranch)
            IN  \E failed \in SUBSET targets :
                  \E last \in IF returns THEN {head}
                              ELSE IF failed = {} /\ targets # {} THEN targets
                              ELSE targets \cup {head} :
                    /\ rebaseInProgress' = FALSE
                    /\ refs' = [b \in Refs |->
                                  IF b \in targets \ failed
                                  THEN ResetBranchToSHA(refs, b, stk.snapshot.refs[b])[b]
                                  ELSE refs[b]]
                    /\ head' = IF originalBranch # NoBranch
                               THEN CheckoutSilent(refs', last, originalBranch)
                               ELSE last
                    /\ stk' = InitStack(Len(h.branches), h.prs)
                    /\ disk' = stk'
                    /\ Log(<<"rollback", 0, 0>>)
                    /\ h' = [h EXCEPT !.rolledBack = TRUE, !.resetFailed = (failed # {})]
    /\ UNCHANGED <<storeVars, submitVars, cmd, flags, provider, mergedBranches, closedBranches, i,
                   originalBranch, startIdx, endIdx>>

\* rollbackStack, then "rebase failed" is returned.  The resets visit the
\* snapshot's refs in map order; each checks its branch out and resets it,
\* may fail at either step and is then only warned about.  HEAD ends on the
\* original branch when that can be checked out, else where the resets left it.
EngineRollback ==
    /\ pc = "rollback"
    /\ Finish("error")
    /\ IF ~stk.snapshot.taken
       THEN UNCHANGED <<stk, disk, refs, head, rebaseInProgress, trace, h>>
       ELSE LET targets == DOMAIN stk.snapshot.refs \ {Base}
                returns == originalBranch # NoBranch /\ BranchExists(refs, originalBranch)
            IN  \E failed \in SUBSET targets :
                  \E last \in IF returns THEN {head}
                              ELSE IF failed = {} /\ targets # {} THEN targets
                              ELSE targets \cup {head} :
                    /\ rebaseInProgress' = FALSE
                    /\ refs' = [b \in Refs |->
                                  IF b \in targets \ failed
                                  THEN ResetBranchToSHA(refs, b, stk.snapshot.refs[b])[b]
                                  ELSE refs[b]]
                    /\ head' = IF originalBranch # NoBranch
                               THEN CheckoutSilent(refs', last, originalBranch)
                               ELSE last
                    /\ stk' = ClearSnapshot(stk)
                    /\ disk' = stk'
                    /\ Log(<<"rollback", 0, 0>>)
                    /\ h' = [h EXCEPT !.rolledBack = TRUE, !.resetFailed = (failed # {})]
    /\ UNCHANGED <<storeVars, submitVars, cmd, flags, provider, mergedBranches, closedBranches, i,
                   originalBranch, startIdx, endIdx>>

\* after the loop: clear the snapshot, return to the original branch
EngineFinish ==
    /\ pc = "rebase"
    /\ i > endIdx
    /\ stk' = IF flags.noAtomic THEN stk ELSE ClearSnapshot(stk)
    /\ disk' = IF flags.noAtomic THEN disk ELSE stk'
    /\ head' = IF originalBranch # NoBranch
               THEN CheckoutSilent(refs, head, originalBranch)
               ELSE head
    /\ IF cmd = "legacySync"
       THEN pc' = "push" /\ i' = 0 /\ result' = result
       ELSE Finish("ok") /\ i' = i
    /\ UNCHANGED <<storeVars, submitVars, cmd, flags, refs, rebaseInProgress, provider, mergedBranches,
                   closedBranches, originalBranch, startIdx, endIdx, trace, h>>

Next ==
    \/ SyncStart
    \/ SyncUpdateBase
    \/ SyncGetProvider
    \/ SyncRefresh
    \/ SyncMergedRetarget
    \/ SyncMergedRemove
    \/ SyncClosed
    \/ SyncRebase
    \/ RebaseStart
    \/ EngineSnapshot
    \/ EngineRebase
    \/ EngineRollback
    \/ EngineFinish

Spec == Init /\ [][Next]_vars

(***************************************************************************)
(* runSync, the version of cli/sync.go that pushes (internal/cli/sync.go), *)
(* with UpdateAllPRDescriptions (cli/pr.go).                               *)
(***************************************************************************)
LegacyStart ==
    /\ pc = "start"
    /\ cmd = "legacySync"
    /\ stk' = disk
    /\ \E clean \in BOOLEAN, syncNoFetch \in BOOLEAN :
          IF ~clean
          THEN Finish("exit") /\ UNCHANGED trace
          ELSE /\ pc' = "updateBase"
               /\ result' = result
               /\ IF syncNoFetch THEN UNCHANGED trace ELSE Log(<<"fetch", Base, 0>>)
    /\ UNCHANGED <<storeVars, submitVars, cmd, flags, disk, refs, head, rebaseInProgress, provider,
                   mergedBranches, closedBranches, i, originalBranch,
                   startIdx, endIdx, h>>

LegacyUpdateBase ==
    /\ pc = "updateBase"
    /\ cmd = "legacySync"
    /\ \E remoteBranchExists \in BOOLEAN :
          IF remoteBranchExists
          THEN UpdateBase("runRebase")
          ELSE /\ pc' = "runRebase"
               /\ UNCHANGED <<result, trace, refs, head, originalBranch>>
    /\ UNCHANGED <<storeVars, submitVars, cmd, flags, disk, stk, rebaseInProgress, provider,
                   mergedBranches, closedBranches, i, startIdx, endIdx, h>>

\* step 3: runRebase(cmd, []string{}) when the stack has branches
LegacyRunRebase ==
    /\ pc = "runRebase"
    /\ IF Len0(stk) > 0
       THEN RunRebaseBegin("push") /\ i' = i
       ELSE /\ pc' = "push"
            /\ i' = 0
            /\ UNCHANGED <<result, stk, originalBranch, startIdx, endIdx, h>>
    /\ UNCHANGED <<storeVars, submitVars, cmd, flags, disk, refs, head, rebaseInProgress, provider,
                   mergedBranches, closedBranches, trace>>

\* step 4: one iteration of the push loop; a failing push only warns
LegacyPush ==
    /\ pc = "push"
    /\ IF flags.noPush \/ i >= Len0(stk)
       THEN pc' = "updatePRs" /\ i' = 0 /\ UNCHANGED trace
       ELSE pc' = pc /\ i' = i + 1 /\ Log(<<"push", At(stk, i).name, 0>>)
    /\ UNCHANGED <<storeVars, submitVars, cmd, flags, result, disk, stk, refs, head, rebaseInProgress,
                   provider, mergedBranches, closedBranches, originalBranch,
                   startIdx, endIdx, h>>

PRNumbers(s) ==
    SelectSeq([k \in 1..Len(s.branches) |-> s.branches[k].pr.number], LAMBDA n : n > 0)

\* step 5: UpdateAllPRDescriptions refreshes every PR record from the forge
\* (collectBranchInfos) and then updates every PR's body
LegacyUpdatePRs ==
    /\ pc = "updatePRs"
    /\ Finish("ok")
    /\ \E syncNoUpdatePRs \in BOOLEAN, providerOK \in BOOLEAN :
          IF syncNoUpdatePRs \/ flags.noPush \/ ~providerOK
             \/ ~\E k \in 1..Len0(stk) : HasPR(stk.branches[k])
          THEN UNCHANGED <<stk, disk, trace, provider>>
          ELSE \E got \in [1..Len0(stk) -> GetResults] :
                 /\ \A k \in 1..Len0(stk) : ~HasPR(stk.branches[k]) => got[k] = "err"
                 /\ provider' = TRUE
                 /\ stk' = [stk EXCEPT !.branches =
                              [k \in 1..Len0(stk) |->
                                 IF got[k] = "err" THEN stk.branches[k]
                                 ELSE [stk.branches[k] EXCEPT !.pr.state = got[k]]]]
                 /\ disk' = IF \E k \in 1..Len0(stk) : got[k] # "err" THEN stk' ELSE disk
                 /\ trace' = trace
                       \o [k \in 1..Len(PRNumbers(stk)) |-> <<"get", PRNumbers(stk)[k],
                                                got[CHOOSE m \in 1..Len0(stk) :
                                                      stk.branches[m].pr.number = PRNumbers(stk)[k]]>>]
                       \o [k \in 1..Len(PRNumbers(stk)) |-> <<"update", PRNumbers(stk)[k], 0>>]
    /\ UNCHANGED <<storeVars, submitVars, cmd, flags, refs, head, rebaseInProgress, mergedBranches,
                   closedBranches, i, originalBranch, startIdx, endIdx, h>>

LegacyFlags == {[NoFlags EXCEPT !.noPush = a] : a \in BOOLEAN}

InitLegacy ==
    \E n \in 0..MaxBranches : \E withPR \in SUBSET (1..n) :
      \E missing \in {{}, {n}} \cap SUBSET (1..n) :
        /\ InitCommon(n, withPR, missing)
        /\ cmd = "legacySync"
        /\ flags \in LegacyFlags

NextLegacy ==
    \/ LegacyStart
    \/ LegacyUpdateBase
    \/ LegacyRunRebase
    \/ EngineSnapshot
    \/ EngineRebase
    \/ EngineRollback
    \/ EngineFinish
    \/ LegacyPush
    \/ LegacyUpdatePRs

SpecLegacy == InitLegacy /\ [][NextLegacy]_vars

(***************************************************************************)
(* Properties of the rebase engine.                                        *)
(***************************************************************************)
\* the RebaseBranchOnto calls issued so far, in order
RebaseCalls == SelectSeq(trace, LAMBDA e : e[1] = "rebase")

\* C1: when a rebase fails in atomic mode after k < N successes and every
\* reset of the rollback succeeds, the engine returns an error, every
\* non-base branch of the stack is at the SHA it had when the engine started,
\* and the persisted stack has no snapshot.
C1_RollbackRestores ==
    (pc = "done" /\ h.rolledBack /\ ~h.resetFailed)
        => /\ result = "error"
           /\ \A b \in BranchNames(disk) : refs[b] = h.preRefs[b]
           /\ ~disk.snapshot.taken
           /\ Len(RebaseCalls) <= endIdx - startIdx + 1

\* a sync whose second rebase failed after the first one moved a branch
C1_Witness ==
    /\ cmd = "sync" /\ pc = "done" /\ h.rolledBack /\ ~h.resetFailed
    /\ Len0(disk) >= 2
    /\ Len(RebaseCalls) = 2
    /\ refs = h.preRefs

\* C2: when every rebase succeeds in atomic mode, the engine has issued
\* exactly one rebase per branch of its range, in ascending index order, the
\* branch at index 0 onto the base and the branch at index i > 0 onto the
\* branch at index i-1; it has cleared the snapshot and returns success.  For
\* sync the range is the whole stack.
C2_SuccessRebasesInOrder ==
    (pc = "done" /\ h.engine /\ ~flags.noAtomic /\ ~h.rolledBack /\ ~h.snapFailed)
        => /\ result = "ok"
           /\ RebaseCalls =
                [k \in 1..(endIdx - startIdx + 1) |->
                    <<"rebase", At(stk, startIdx + k - 1).name,
                      IF startIdx + k - 1 = 0 THEN Base
                      ELSE At(stk, startIdx + k - 2).name>>]
           /\ cmd = "sync" => (startIdx = 0 /\ endIdx = Len0(disk) - 1)
           /\ ~disk.snapshot.taken
           /\ ~stk.snapshot.taken

\* a successful sync over a stack of three branches
C2_Witness ==
    /\ cmd = "sync" /\ pc = "done" /\ result = "ok" /\ h.engine
    /\ Len0(disk) = 3
    /\ Len(RebaseCalls) = 3

\* C3: whenever a git rebase is already in progress the engine refuses to
\* start: it takes no snapshot, rebases nothing and returns an error.
C3_RefusesWhenRebaseInProgress ==
    (h.engine /\ h.rip)
        => /\ \A k \in 1..Len(trace) : trace[k][1] \notin {"snapshot", "rebase"}
           /\ ~disk.snapshot.taken
           /\ refs = h.preRefs
           /\ pc = "done" => result = "error"

\* C4: in atomic mode the snapshot, holding the SHA of the base and of every
\* branch of the stack, is in the stack file before the first rebase and stays
\* there while the engine rebases; when taking or saving the snapshot fails
\* the engine returns an error with no branch checked out or rebased.
C4_SnapshotBeforeRebase ==
    /\ (h.engine /\ ~flags.noAtomic /\ pc \in {"rebase", "rollback"})
          => /\ disk.snapshot.taken
             /\ DOMAIN disk.snapshot.refs = {Base} \cup BranchNames(disk)
             /\ \A n \in DOMAIN disk.snapshot.refs : disk.snapshot.refs[n] = h.preRefs[n]
    /\ (RebaseCalls # << >> /\ ~flags.noAtomic)
          => \E k \in 1..Len(trace) :
                /\ trace[k][1] = "snapshot"
                /\ \A m \in 1..k : trace[m][1] # "rebase"
    /\ h.snapFailed
          => /\ pc = "done" /\ result = "error"
             /\ RebaseCalls = << >>
             /\ refs = h.preRefs
             /\ head = originalBranch
             /\ ~disk.snapshot.taken

\* the engine in its loop after a first rebase, the snapshot on disk
C4_Witness ==
    /\ cmd = "sync" /\ pc = "rebase" /\ ~flags.noAtomic
    /\ Len(RebaseCalls) = 1
    /\ refs # h.preRefs
    /\ disk.snapshot.taken

Reported(state) ==
    {b \in Names : \E k \in 1..Len(trace) :
        trace[k][1] = "get" /\ trace[k][2] = PRNumber(b) /\ trace[k][3] = state}

MergedReported == Reported("merged")

ClosedReported == Reported("closed")

\* the stack's names at the start of the command without the merged ones
SurvivingNames == SelectSeq(h.branches, LAMBDA b : b \notin MergedReported)

\* sync is past its loops over the merged and the closed branches
AfterClosed == cmd = "sync" /\ pc \in {"reload", "snapshot", "rebase", "rollback", "done"}

\* C6: sync never pushes to the remote, whatever its flags and whatever the
\* outcome of its steps.
C6_SyncNeverPushes ==
    cmd \in {"sync", "legacySync"} => \A k \in 1..Len(trace) : trace[k][1] # "push"

\* the retarget calls of the merged branch being processed
CurrentRetargets == SubSeq(trace, h.mark + 1, Len(trace))

\* C7: for each merged branch the retarget of its child's PR is issued while
\* the branch is still in the stack, and the removal follows it whether or not
\* the retarget failed; once the loop is over every merged branch is removed.
C7_RetargetBeforeRemoval ==
    /\ pc = "mergedRemove"
          => LET idx == FindBranch(disk, mergedBranches[i + 1])
             IN  /\ idx >= 0
                 /\ (idx + 1 < Len0(disk) /\ HasPR(At(disk, idx + 1)))
                       => /\ trace[Len(trace)][1] = "retarget"
                          /\ trace[Len(trace)][2] = At(disk, idx + 1).pr.number
    /\ \A k \in 1..Len(trace) :
          trace[k][1] = "retarget"
             => IF k = Len(trace) THEN pc = "mergedRemove"
                ELSE trace[k + 1][1] = "remove"
    /\ (cmd = "sync" /\ pc \notin {"refresh", "merged", "mergedRemove"})
          => \A b \in MergedReported :
                /\ b \notin BranchNames(disk)
                /\ \E k \in 1..Len(trace) : trace[k][1] = "remove" /\ trace[k][2] = b

\* a finished sync whose only retarget failed and was followed by two removals
C7_Witness ==
    /\ cmd = "sync" /\ pc = "done" /\ h.retargetFailed
    /\ Len(SelectSeq(trace, LAMBDA e : e[1] = "retarget")) = 1
    /\ \E k \in 1..Len(trace) :
          /\ trace[k][1] = "retarget"
          /\ \E m \in (k + 2)..Len(trace) : trace[m][1] = "remove"
    /\ MergedReported \cap BranchNames(disk) = {}

C9_FinalStackAfterSync ==
    (cmd = "sync" /\ pc = "done" /\ result = "ok" /\ ~flags.noRebase
        /\ Reported("err") = {})
        => /\ NameSeq(disk) = SurvivingNames
           /\ RebaseCalls =
                [k \in 1..Len(SurvivingNames) |->
                    <<"rebase", SurvivingNames[k],
                      IF k = 1 THEN Base ELSE SurvivingNames[k - 1]>>]
           /\ \A b \in BranchNames(disk) : refs[b] # h.preRefs[b]
           /\ ~disk.snapshot.taken

\* the first and the third of three branches merged, the second one rebased
C9_Witness ==
    /\ cmd = "sync" /\ pc = "done" /\ result = "ok" /\ ~flags.noRebase
    /\ Reported("err") = {}
    /\ h.branches = <<1, 2, 3>>
    /\ MergedReported = {1, 3}
    /\ NameSeq(disk) = <<2>>
    /\ RebaseCalls = << <<"rebase", 2, Base>> >>

\* C10: every branch whose PR the forge reported closed keeps its place in
\* the stack with its PR record cleared, and sync removes no branch but the
\* merged ones.
C10_ClosedKeepsBranch ==
    AfterClosed
        => /\ \A b \in ClosedReported :
                /\ b \in BranchNames(disk)
                /\ At(disk, FindBranch(disk, b)).pr = NoPR
           /\ NameSeq(disk) = SurvivingNames

\* a closed PR between two merged ones
C10_Witness ==
    /\ AfterClosed /\ pc = "done"
    /\ h.branches = <<1, 2, 3>>
    /\ ClosedReported = {2}
    /\ MergedReported = {1, 3}
    /\ NameSeq(disk) = <<2>>
    /\ At(disk, 0).pr = NoPR


\* the elements of a sequence
Range(seq) == {seq[k] : k \in 1..Len(seq)}

\* the Get calls issued so far for the PR of branch b
GetCalls(b) == SelectSeq(trace, LAMBDA e : e[1] = "get" /\ e[2] = PRNumber(b))

\* C11: a branch whose Get failed during sync keeps its PR record and its
\* place in the stack and is classified neither merged nor closed; the PR of
\* every other branch is still fetched, once; and the failure is not what
\* makes sync return an error.
C11_GetFailureIsLocal ==
    /\ \A b \in Reported("err") :
          /\ b \notin Range(mergedBranches) \cup Range(closedBranches)
          /\ b \in BranchNames(disk)
          /\ At(disk, FindBranch(disk, b)).pr = [number |-> PRNumber(b), state |-> "open"]
    /\ (cmd = "sync" /\ pc = "refresh") => NameSeq(disk) = h.branches
    /\ (cmd = "sync" /\ provider
          /\ pc \notin {"start", "updateBase", "provider", "refresh"})
          => \A b \in Names : Len(GetCalls(b)) = IF b \in h.prs THEN 1 ELSE 0
    /\ (cmd = "sync" /\ pc = "done" /\ Reported("err") # {})
          => /\ result \in {"ok", "error"}
             /\ result = "error" => (h.snapFailed \/ h.rolledBack)
             /\ flags.noRebase => result = "ok"

\* a successful sync in which the Get of the second of three PRs failed
C11_Witness ==
    /\ cmd = "sync" /\ pc = "done" /\ result = "ok"
    /\ h.branches = <<1, 2, 3>>
    /\ Reported("err") = {2}
    /\ MergedReported = {1}
    /\ Reported("open") = {3}
    /\ NameSeq(disk) = <<2, 3>>


(***************************************************************************)
(* runSubmit and checkBaseSynced (cli/submit.go), the renderer             *)
(* GenerateStackSection (internal/pr/provider.go).                         *)
(***************************************************************************)
MaxBehind == 2

PRStates == {"open", "draft", "merged", "closed"}

\* how origin/<base> can stand to the local base; "noLocal": the local base
\* does not resolve
RemoteBases ==
    {NoRemoteBase}
      \cup {[exists |-> TRUE, rel |-> r, behind |-> 0] :
               r \in {"equal", "ahead", "diverged", "noLocal"}}
      \cup {[exists |-> TRUE, rel |-> "behind", behind |-> c] : c \in 1..MaxBehind}

SubmitFlags == [noCreatePRs : BOOLEAN, noUpdatePRs : BOOLEAN, force : BOOLEAN,
                draft : BOOLEAN]

\* the numbers the forge gives: to a PR found by GetByBranch, to a created PR
AdoptedNumber(b) == 200 + b
CreatedNumber(b) == 300 + b

\* git merge-base --is-ancestor with its arguments swapped
IsAncestorSwapped(rb) == rb.rel \in {"equal", "ahead"}

\* git merge-base --is-ancestor <local base> <origin/base>
IsAncestor(rb) == rb.rel \in {"equal", "behind"}

\* git rev-list --count <local base>..<origin/base>
CommitCount(rb) == rb.behind

\* checkBaseSynced: the error, if any, and the commit count it names
CheckBaseSynced(rb) ==
    IF ~rb.exists THEN [failed |-> FALSE, count |-> 0]
    ELSE IF rb.rel = "noLocal" THEN [failed |-> FALSE, count |-> 0]
    ELSE IF rb.rel = "equal" THEN [failed |-> FALSE, count |-> 0]
    ELSE IF IsAncestor(rb) THEN [failed |-> TRUE, count |-> CommitCount(rb)]
    ELSE [failed |-> FALSE, count |-> 0]

\* Git().Push(remote, branch, force): the git push it runs
Push(branch, force) == <<"push", branch, IF force THEN "--force-with-lease" ELSE "">>

\* a status column that knows the four states only
StatusOfKnownStates(pr) ==
    IF ~HasPR([pr |-> pr]) THEN "Pending"
    ELSE IF pr.state = "merged" THEN "Merged"
    ELSE IF pr.state = "closed" THEN "Closed"
    ELSE IF pr.state = "draft" THEN "Draft"
    ELSE IF pr.state = "open" THEN "Open"
    ELSE "Pending"

\* the status column of the stack section
StatusOf(pr) ==
    IF ~HasPR([pr |-> pr]) THEN "Pending"
    ELSE IF pr.state = "merged" THEN "Merged"
    ELSE IF pr.state = "closed" THEN "Closed"
    ELSE IF pr.state = "draft" THEN "Draft"
    ELSE "Open"

\* the rows of the table GenerateStackSection writes; pr 0 is the cell "-"
GenerateStackSection(infos, currentBranch) ==
    [k \in 1..Len(infos) |->
        [num |-> k, branch |-> infos[k].name, pr |-> infos[k].pr.number,
         bold |-> infos[k].name = currentBranch,
         status |-> IF infos[k].name = currentBranch THEN "This PR"
                    ELSE StatusOf(infos[k].pr)]]

\* the branch infos built from the stack's records, nothing fetched
CollectBranchInfos(s) ==
    [k \in 1..Len(s.branches) |-> [name |-> s.branches[k].name, pr |-> s.branches[k].pr]]

InitSubmit ==
    \E n \in 0..MaxBranches : \E prs \in [1..n -> {"none"} \cup PRStates] :
        /\ cmd = "submit"
        /\ flags \in SubmitFlags
        /\ pc = "start"
        /\ result = "running"
        /\ disk = [branches |-> [k \in 1..n |->
                                   [name |-> k,
                                    pr |-> IF prs[k] = "none" THEN NoPR
                                           ELSE [number |-> PRNumber(k), state |-> prs[k]]]],
                   snapshot |-> NoSnapshot]
        /\ stk = EmptyStack
        /\ refs = [b \in Refs |-> IF b <= n THEN 1 ELSE 0]
        /\ head = Base
        /\ rebaseInProgress = FALSE
        /\ provider = FALSE
        /\ mergedBranches = << >>
        /\ closedBranches = << >>
        /\ i = 0
        /\ originalBranch = NoBranch
        /\ startIdx = 0
        /\ endIdx = 0 - 1
        /\ trace = << >>
        /\ remoteBase \in RemoteBases
        /\ branchInfos = << >>
        /\ NoStore
        /\ h = [NoHistory EXCEPT !.head = head, !.branches = [k \in 1..n |-> k],
                                 !.prs = {k \in 1..n : prs[k] # "none"}]

\* RequireStack, RequireCleanTree, the empty stack, step 1 (checkBaseSynced)
SubmitStart ==
    /\ pc = "start"
    /\ cmd = "submit"
    /\ stk' = disk
    /\ i' = 0
    /\ \E clean \in BOOLEAN :
          IF ~clean
          THEN Finish("exit") /\ UNCHANGED h
          ELSE IF Len0(stk') = 0
          THEN Finish("ok") /\ UNCHANGED h
          ELSE IF ~flags.force /\ CheckBaseSynced(remoteBase).failed
          THEN /\ Finish("error")
               /\ h' = [h EXCEPT !.err = <<"behind", CheckBaseSynced(remoteBase).count>>]
          ELSE /\ pc' = "push"
               /\ result' = result
               /\ UNCHANGED h
    /\ UNCHANGED <<storeVars, submitVars, cmd, flags, disk, refs, head, rebaseInProgress, provider,
                   mergedBranches, closedBranches, originalBranch, startIdx, endIdx,
                   trace>>


\* the push loop going on after a failed push
SubmitPushBestEffort ==
    /\ pc = "push"
    /\ IF i >= Len0(stk)
       THEN pc' = "provider" /\ i' = 0 /\ UNCHANGED <<result, trace, h>>
       ELSE /\ Log(Push(At(stk, i).name, TRUE))
            /\ pc' = pc /\ i' = i + 1 /\ result' = result
            /\ \E pushed \in BOOLEAN :
                 h' = IF pushed THEN h ELSE [h EXCEPT !.err = <<"push", At(stk, i).name>>]
    /\ UNCHANGED <<storeVars, submitVars, cmd, flags, disk, stk, refs, head, rebaseInProgress,
                   provider, mergedBranches, closedBranches, originalBranch,
                   startIdx, endIdx>>

\* step 2, one iteration of the push loop: a failing push is returned
SubmitPush ==
    /\ pc = "push"
    /\ IF i >= Len0(stk)
       THEN pc' = "provider" /\ i' = 0 /\ UNCHANGED <<result, trace, h>>
       ELSE /\ Log(Push(At(stk, i).name, TRUE))
            /\ \E pushed \in BOOLEAN :
                 IF pushed
                 THEN pc' = pc /\ i' = i + 1 /\ UNCHANGED <<result, h>>
                 ELSE /\ Finish("error")
                      /\ i' = i
                      /\ h' = [h EXCEPT !.err = <<"push", At(stk, i).name>>]
    /\ UNCHANGED <<storeVars, submitVars, cmd, flags, disk, stk, refs, head, rebaseInProgress,
                   provider, mergedBranches, closedBranches, originalBranch,
                   startIdx, endIdx>>

\* getProvider and the collection of the branch infos
SubmitGetProvider ==
    /\ pc = "provider"
    /\ \E got \in BOOLEAN :
         /\ provider' = got
         /\ IF ~got /\ (~flags.noCreatePRs \/ ~flags.noUpdatePRs)
            THEN Finish("ok") /\ UNCHANGED branchInfos
            ELSE /\ pc' = "create"
                 /\ result' = result
                 /\ branchInfos' = CollectBranchInfos(stk)
    /\ UNCHANGED <<storeVars, remoteBase, cmd, flags, disk, stk, refs, head, rebaseInProgress,
                   mergedBranches, closedBranches, i, originalBranch, startIdx, endIdx,
                   trace, h>>

\* a GetByBranch answer that is never taken for an existing PR
AdoptsNever(found) == FALSE

\* err == nil && existingPR != nil
Adopts(found) == found \in {"open", "draft"}

\* every PR targeting the stack's base
CreateBaseAlwaysStackBase(s, idx) == Base

\* the base of the PR created for the branch at index idx
CreateBase(s, idx) == IF idx = 0 THEN Base ELSE At(s, idx - 1).name

\* the branch infos left as they were collected
SetInfoKeeps(infos, k, pr) == infos

\* branchInfos[i].PR = pr
SetInfo(infos, k, pr) == [infos EXCEPT ![k + 1].pr = pr]

\* step 3, one iteration of the loop over stk.Branches: skip, adopt or create
SubmitCreate ==
    /\ pc = "create"
    /\ IF flags.noCreatePRs \/ ~provider \/ i >= Len0(stk)
       THEN /\ pc' = "update"
            /\ i' = 0
            /\ UNCHANGED <<stk, disk, trace, branchInfos>>
       ELSE LET branch == At(stk, i)
            IN  /\ pc' = pc
                /\ i' = i + 1
                /\ IF HasPR(branch)
                   THEN UNCHANGED <<stk, disk, trace, branchInfos>>
                   ELSE \E found \in {"none", "err", "open", "draft"} :
                     IF Adopts(found)
                     THEN LET existingPR == [number |-> AdoptedNumber(branch.name),
                                             state |-> found]
                          IN  /\ Log(<<"getByBranch", branch.name, found>>)
                              /\ stk' = UpdatePR(stk, branch.name, existingPR)
                              /\ disk' = stk'
                              /\ branchInfos' = SetInfo(branchInfos, i, existingPR)
                     ELSE LET idx == FindBranch(stk, branch.name)
                              body == GenerateStackSection(branchInfos, branch.name)
                              newPR == [number |-> CreatedNumber(branch.name),
                                        state |-> IF flags.draft THEN "draft" ELSE "open"]
                              calls == << <<"getByBranch", branch.name, found>>,
                                          <<"create", branch.name, CreateBase(stk, idx), body>> >>
                          IN  \E created \in BOOLEAN :
                                   IF created
                                   THEN /\ stk' = UpdatePR(stk, branch.name, newPR)
                                        /\ disk' = stk'
                                        /\ branchInfos' = SetInfo(branchInfos, i, newPR)
                                        /\ trace' = trace \o calls \o
                                              << <<"created", branch.name, newPR.number>> >>
                                   ELSE /\ trace' = trace \o calls
                                        /\ UNCHANGED <<stk, disk, branchInfos>>
    /\ UNCHANGED <<storeVars, remoteBase, cmd, flags, result, refs, head, rebaseInProgress, provider,
                   mergedBranches, closedBranches, originalBranch, startIdx, endIdx, h>>

\* step 4, before its loop: reload the stack, collect the branch infos afresh
SubmitUpdateBegin ==
    /\ pc = "update"
    /\ IF flags.noUpdatePRs \/ ~provider
       THEN Finish("ok") /\ UNCHANGED <<stk, branchInfos>>
       ELSE /\ stk' = disk
            /\ IF \E k \in 1..Len0(stk') : HasPR(stk'.branches[k])
               THEN /\ branchInfos' = CollectBranchInfos(stk')
                    /\ pc' = "updating"
                    /\ result' = result
               ELSE Finish("ok") /\ UNCHANGED branchInfos
    /\ i' = 0
    /\ UNCHANGED <<storeVars, remoteBase, cmd, flags, disk, refs, head, rebaseInProgress, provider,
                   mergedBranches, closedBranches, originalBranch, startIdx, endIdx,
                   trace, h>>

\* every recorded PR updated, whatever its state
NeedsUpdateAll(branch) == HasPR(branch)

\* the branches whose PR body step 4 rewrites
NeedsUpdate(branch) == HasPR(branch) /\ branch.pr.state \notin {"merged", "closed"}

\* step 4, one iteration of the loop: a failing Update only warns
SubmitUpdate ==
    /\ pc = "updating"
    /\ IF i >= Len0(stk)
       THEN Finish("ok") /\ i' = i /\ UNCHANGED <<trace, h>>
       ELSE LET branch == At(stk, i)
            IN  /\ pc' = pc
                /\ result' = result
                /\ i' = i + 1
                /\ IF ~NeedsUpdate(branch)
                   THEN UNCHANGED <<trace, h>>
                   ELSE /\ Log(<<"update", branch.pr.number,
                                  GenerateStackSection(branchInfos, branch.name)>>)
                        /\ \E updated \in BOOLEAN :
                             h' = [h EXCEPT !.updateFailed = @ \/ ~updated]
    /\ UNCHANGED <<storeVars, submitVars, cmd, flags, disk, stk, refs, head, rebaseInProgress,
                   provider, mergedBranches, closedBranches, originalBranch,
                   startIdx, endIdx>>

NextSubmit ==
    \/ SubmitStart
    \/ SubmitPush
    \/ SubmitGetProvider
    \/ SubmitCreate
    \/ SubmitUpdateBegin
    \/ SubmitUpdate

SpecSubmit == InitSubmit /\ [][NextSubmit]_vars


(***************************************************************************)
(* Properties of submit.                                                   *)
(***************************************************************************)
\* the calls of one kind issued so far, in order
Calls(op) == SelectSeq(trace, LAMBDA e : e[1] = op)

\* the local base is strictly behind origin/<base>
BaseBehind == remoteBase.exists /\ remoteBase.rel = "behind"

\* C12 as stated: without the override, submit fails before any push and any
\* forge call whenever the local base is strictly behind origin/<base>.
C12_BehindBaseFails ==
    (cmd = "submit" /\ pc = "done" /\ ~flags.force /\ BaseBehind)
        => /\ result \in {"error", "exit"}
           /\ trace = << >>

\* C12, amended: without the override, a submit on a stack that has branches
\* fails before any push and any forge call whenever the local base is
\* strictly behind origin/<base>, and the error names the number of commits
\* behind; with the override, or with the base equal, ahead, diverged or
\* without remote, the check does not stop submit.
C12_BehindBaseFailsWithBranches ==
    /\ (cmd = "submit" /\ pc = "done" /\ ~flags.force /\ BaseBehind /\ h.branches # << >>)
          => /\ result \in {"error", "exit"}
             /\ trace = << >>
             /\ result = "error" => h.err = <<"behind", remoteBase.behind>>
    /\ (cmd = "submit" /\ h.err # << >> /\ h.err[1] = "behind")
          => (~flags.force /\ BaseBehind /\ remoteBase.behind > 0)
    /\ (cmd = "submit" /\ pc = "done" /\ trace = << >> /\ result = "error")
          => (~flags.force /\ BaseBehind)

\* a submit refused for a base two commits behind
C12_Witness ==
    /\ cmd = "submit" /\ pc = "done" /\ result = "error"
    /\ h.branches # << >>
    /\ h.err = <<"behind", 2>>

\* C13: submit pushes the branches in stack order with --force-with-lease;
\* the first failing push ends the command with an error naming that branch,
\* with no later push and no forge call; forge calls come only after every
\* branch was pushed.
C13_PushFailureAborts ==
    cmd = "submit"
        => /\ Calls("push") = [k \in 1..Len(Calls("push")) |->
                                  <<"push", h.branches[k], "--force-with-lease">>]
           /\ (h.err # << >> /\ h.err[1] = "push")
                 => /\ pc = "done" /\ result = "error"
                    /\ trace = Calls("push")
                    /\ trace[Len(trace)][2] = h.err[2]
           /\ trace # Calls("push") => Len(Calls("push")) = Len(h.branches)

\* the push of the second of three branches failed
C13_Witness ==
    /\ cmd = "submit" /\ pc = "done"
    /\ h.err = <<"push", 2>>
    /\ Len(h.branches) = 3
    /\ Len(trace) = 2

\* the PR record of branch b in the stack file
RecordOf(b) == At(disk, FindBranch(disk, b)).pr

\* C14: create is never called for a branch that has a local PR record, nor
\* for a branch for which GetByBranch returned a PR; the number and state of
\* the PR returned are then the branch's record in the stack file.
C14_NoCreateWhenPRExists ==
    cmd = "submit"
        => \A k \in 1..Len(trace) :
              /\ trace[k][1] = "create"
                    => /\ trace[k][2] \notin h.prs
                       /\ Len(SelectSeq(trace, LAMBDA e : e[1] = "create"
                                                         /\ e[2] = trace[k][2])) = 1
                       /\ trace[k - 1][1] = "getByBranch"
                       /\ trace[k - 1][2] = trace[k][2]
                       /\ trace[k - 1][3] \in {"none", "err"}
              /\ (trace[k][1] = "getByBranch" /\ trace[k][3] \in {"open", "draft"})
                    => /\ \A m \in 1..Len(trace) :
                             trace[m][1] = "create" => trace[m][2] # trace[k][2]
                       /\ RecordOf(trace[k][2]) =
                             [number |-> AdoptedNumber(trace[k][2]), state |-> trace[k][3]]

\* the first branch's PR found on the forge, the second branch's PR created
C14_Witness ==
    /\ cmd = "submit" /\ pc = "done"
    /\ \E k \in 1..Len(trace) : trace[k] = <<"getByBranch", 1, "open">>
    /\ RecordOf(1) = [number |-> AdoptedNumber(1), state |-> "open"]
    /\ \E k \in 1..Len(trace) : trace[k][1] = "create" /\ trace[k][2] = 2
    /\ 3 \in h.prs


\* the 1-based position of branch b in the stack submit works on
PositionOf(b) == CHOOSE k \in 1..Len(h.branches) : h.branches[k] = b

\* the state of a PR that submit creates
CreatedState == IF flags.draft THEN "draft" ELSE "open"

\* C15: every PR that submit creates has the branch as head and, as base,
\* the stack's base for the branch at index 0 and the preceding branch
\* otherwise; a PR the forge returned is stored as the branch's record.
C15_CreateTargetsParent ==
    cmd = "submit"
        => \A k \in 1..Len(trace) :
              /\ trace[k][1] = "create"
                    => /\ trace[k][2] \in Range(h.branches)
                       /\ trace[k][3] = IF PositionOf(trace[k][2]) = 1 THEN Base
                                        ELSE h.branches[PositionOf(trace[k][2]) - 1]
              /\ trace[k][1] = "created"
                    => /\ trace[k - 1][1] = "create" /\ trace[k - 1][2] = trace[k][2]
                       /\ RecordOf(trace[k][2]) =
                             [number |-> trace[k][3], state |-> CreatedState]

\* PRs created for the first and for the third branch
C15_Witness ==
    /\ cmd = "submit" /\ pc = "done"
    /\ h.prs = {2}
    /\ \E k \in 1..Len(trace) : trace[k][1] = "create" /\ trace[k][2] = 1 /\ trace[k][3] = Base
    /\ \E k \in 1..Len(trace) : trace[k][1] = "create" /\ trace[k][2] = 3 /\ trace[k][3] = 2
    /\ RecordOf(3) = [number |-> CreatedNumber(3), state |-> CreatedState]

\* C16: the stack section in the body of a PR created for branch i shows, for
\* every branch j < i whose PR was found or created earlier in the run, that
\* PR's number and state, not "Pending".
C16_BodyShowsEarlierPRs ==
    cmd = "submit"
        => \A k \in 1..Len(trace) : \A m \in 1..(k - 1) :
              (trace[k][1] = "create" /\ trace[m][1] \in {"getByBranch", "created"}
                  /\ trace[m][2] # trace[k][2])
                 => LET row == trace[k][4][PositionOf(trace[m][2])]
                    IN  /\ PositionOf(trace[m][2]) < PositionOf(trace[k][2])
                        /\ row.branch = trace[m][2]
                        /\ (trace[m][1] = "created")
                              => /\ row.pr = trace[m][3]
                                 /\ row.status = IF flags.draft THEN "Draft" ELSE "Open"
                        /\ (trace[m][1] = "getByBranch" /\ trace[m][3] \in {"open", "draft"})
                              => /\ row.pr = AdoptedNumber(trace[m][2])
                                 /\ row.status = IF trace[m][3] = "draft" THEN "Draft"
                                                 ELSE "Open"

\* the third PR created after the first was found and the second created
C16_Witness ==
    /\ cmd = "submit"
    /\ \E k \in 1..Len(trace) :
          /\ trace[k][1] = "create" /\ trace[k][2] = 3
          /\ trace[k][4][1].pr = AdoptedNumber(1)
          /\ trace[k][4][2].pr = CreatedNumber(2)
          /\ trace[k][4][3].status = "This PR"

\* C17: when the description-update step has run, Update was called exactly
\* once for every branch whose record is open or draft and never for a merged
\* or closed one; a failing Update stops neither the later ones nor submit.
C17_UpdatesOpenAndDraftOnce ==
    (cmd = "submit" /\ pc = "done" /\ result = "ok" /\ provider /\ ~flags.noUpdatePRs)
        => /\ \A k \in 1..Len0(disk) :
                Len(SelectSeq(trace, LAMBDA e : e[1] = "update"
                                                 /\ e[2] = disk.branches[k].pr.number))
                   = IF disk.branches[k].pr.state \in {"open", "draft"} THEN 1 ELSE 0
           /\ Len(Calls("update")) =
                Cardinality({k \in 1..Len0(disk) : disk.branches[k].pr.state \in {"open", "draft"}})
    
\* a failed Update in a run that updated two PRs and skipped a merged one
C17_Witness ==
    /\ cmd = "submit" /\ pc = "done" /\ result = "ok" /\ h.updateFailed
    /\ Len(Calls("update")) = 2
    /\ RecordOf(1).state = "merged"


(***************************************************************************)
(* The manager's mutations of one Stack (internal/stack/manager.go), as    *)
(* any caller may chain them: stk is the *Stack the caller holds, disk the *)
(* stack file.  The base can be given as a branch name.                    *)
(***************************************************************************)
\* the names a caller can pass: the base and the branches
MgrNames == {Base} \cup Names

NewBranch(name) == [name |-> name, pr |-> NoPR]

HasBranch(s, name) == FindBranch(s, name) >= 0

\* branch put behind the first k entries of seq
InsertAfter(seq, k, branch) ==
    [m \in 1..(Len(seq) + 1) |->
        IF m <= k THEN seq[m] ELSE IF m = k + 1 THEN branch ELSE seq[m - 1]]

\* AddBranch up to its Save: the error it returns and the stack it leaves
AddBranch(s, branchName, afterBranch) ==
    IF HasBranch(s, branchName) THEN [err |-> TRUE, stack |-> s]
    ELSE IF afterBranch = NoBranch \/ afterBranch = Base
    THEN IF Len0(s) = 0
         THEN [err |-> FALSE, stack |-> [s EXCEPT !.branches = <<NewBranch(branchName)>>]]
         ELSE LET idx == FindBranch(s, afterBranch)
              IN  IF idx < 0
                  THEN [err |-> FALSE,
                        stack |-> [s EXCEPT !.branches = Append(@, NewBranch(branchName))]]
                  ELSE [err |-> FALSE,
                        stack |-> [s EXCEPT !.branches =
                                      InsertAfter(@, idx + 1, NewBranch(branchName))]]
    ELSE LET idx == FindBranch(s, afterBranch)
         IN  IF idx < 0 THEN [err |-> TRUE, stack |-> s]
             ELSE [err |-> FALSE,
                   stack |-> [s EXCEPT !.branches =
                                 InsertAfter(@, idx + 1, NewBranch(branchName))]]

\* an append that does not look for the name first
AppendBranchUnchecked(s, branchName) ==
    [err |-> FALSE, stack |-> [s EXCEPT !.branches = Append(@, NewBranch(branchName))]]

\* AppendBranch up to its Save
AppendBranch(s, branchName) ==
    IF HasBranch(s, branchName) THEN [err |-> TRUE, stack |-> s]
    ELSE [err |-> FALSE, stack |-> [s EXCEPT !.branches = Append(@, NewBranch(branchName))]]

\* MoveBranch up to its Save: the branch is taken out before afterBranch is
\* looked up, and stays out when that lookup fails
MoveBranch(s, branchName, afterBranch) ==
    LET idx == FindBranch(s, branchName)
    IN  IF idx < 0 THEN [err |-> TRUE, stack |-> s]
        ELSE LET branch == At(s, idx)
                 rest == [s EXCEPT !.branches = RemoveAt(@, idx + 1)]
             IN  IF afterBranch = NoBranch \/ afterBranch = Base
                 THEN [err |-> FALSE,
                       stack |-> [rest EXCEPT !.branches = <<branch>> \o @]]
                 ELSE LET newIdx == FindBranch(rest, afterBranch)
                      IN  IF newIdx < 0 THEN [err |-> TRUE, stack |-> rest]
                          ELSE [err |-> FALSE,
                                stack |-> [rest EXCEPT !.branches =
                                              InsertAfter(@, newIdx + 1, branch)]]

InitManager ==
    /\ cmd = "manager"
    /\ flags = NoFlags
    /\ pc = "ready"
    /\ result = "ok"
    /\ disk = EmptyStack
    /\ stk = EmptyStack
    /\ refs = [b \in Refs |-> 1]
    /\ head = Base
    /\ rebaseInProgress = FALSE
    /\ provider = FALSE
    /\ mergedBranches = << >>
    /\ closedBranches = << >>
    /\ i = 0
    /\ originalBranch = NoBranch
    /\ startIdx = 0
    /\ endIdx = 0 - 1
    /\ trace = << >>
    /\ remoteBase = NoRemoteBase
    /\ branchInfos = << >>
    /\ NoStore
    /\ h = NoHistory

\* what every mutation leaves alone
MgrFrame ==
    UNCHANGED <<storeVars, submitVars, cmd, flags, pc, refs, head, rebaseInProgress, provider,
                mergedBranches, closedBranches, i, originalBranch, startIdx, endIdx,
                trace, h>>

\* the caller's stack after a call, and the stack file when the call saved it
MgrDone(r) ==
    /\ stk' = r.stack
    /\ disk' = IF r.err THEN disk ELSE r.stack
    /\ result' = IF r.err THEN "error" ELSE "ok"
    /\ MgrFrame

\* Create: refused when the stack exists, else a new, empty stack is saved
MgrCreate ==
    /\ cmd = "manager"
    /\ \E exists \in BOOLEAN :
         MgrDone(IF exists THEN [err |-> TRUE, stack |-> stk]
                 ELSE [err |-> FALSE, stack |-> EmptyStack])

MgrAddBranch ==
    /\ cmd = "manager"
    /\ \E name \in MgrNames, after \in MgrNames \cup {NoBranch} :
         MgrDone(AddBranch(stk, name, after))

MgrAppendBranch ==
    /\ cmd = "manager"
    /\ \E name \in MgrNames : MgrDone(AppendBranch(stk, name))

MgrRemoveBranch ==
    /\ cmd = "manager"
    /\ \E name \in MgrNames :
         MgrDone([err |-> ~HasBranch(stk, name), stack |-> RemoveBranch(stk, name)])

MgrMoveBranch ==
    /\ cmd = "manager"
    /\ \E name \in MgrNames, after \in MgrNames \cup {NoBranch} :
         MgrDone(MoveBranch(stk, name, after))

MgrUpdatePR ==
    /\ cmd = "manager"
    /\ \E name \in MgrNames :
         \E pr \in {NoPR, [number |-> PRNumber(name), state |-> "open"]} :
            MgrDone([err |-> ~HasBranch(stk, name), stack |-> UpdatePR(stk, name, pr)])

NextManager ==
    \/ MgrCreate
    \/ MgrAddBranch
    \/ MgrAppendBranch
    \/ MgrRemoveBranch
    \/ MgrMoveBranch
    \/ MgrUpdatePR

SpecManager == InitManager /\ [][NextManager]_vars


(***************************************************************************)
(* Claims about the manager's mutations.                                   *)
(***************************************************************************)
\* the 0-based indexes of the entries of s named name
IndexesOf(s, name) == {k \in 0..(Len0(s) - 1) : At(s, k).name = name}

NoDuplicates(s) == \A name \in MgrNames : Cardinality(IndexesOf(s, name)) <= 1

FindConsistent(s) ==
    \A name \in MgrNames :
        IF IndexesOf(s, name) = {} THEN FindBranch(s, name) = 0 - 1
        ELSE IndexesOf(s, name) = {FindBranch(s, name)}

\* C18: after any sequence of Create, AddBranch, AppendBranch, RemoveBranch,
\* MoveBranch and UpdatePR calls, whether they succeeded or failed, no name
\* appears twice in the branches of the caller's stack or of the stack file,
\* and FindBranch(name) is the index of the one entry with that name, or -1
\* when there is none.
C18_NoDuplicateNames ==
    cmd = "manager" =>
        /\ NoDuplicates(stk) /\ FindConsistent(stk)
        /\ NoDuplicates(disk) /\ FindConsistent(disk)

\* a failed MoveBranch has left the caller's stack one branch short of the
\* stack file, which holds every name
C18_Witness ==
    /\ cmd = "manager"
    /\ result = "error"
    /\ Len0(disk) = MaxBranches
    /\ Len0(stk) = MaxBranches - 1
    /\ BranchNames(stk) \subseteq BranchNames(disk)

\* C19: after every successful mutation the base is not among the branches
\* of the stack, also when AddBranch or AppendBranch was given the name of
\* the base.
C19_BaseNotInBranches ==
    (cmd = "manager" /\ result = "ok") => Base \notin BranchNames(stk)

\* C20: AddBranch(stack, name, after) puts name immediately behind the
\* branch after; with after empty or equal to the base it puts name at
\* position 0 whatever the length of branches; a name already in the stack
\* is rejected.
C20_AddBranchPosition ==
    [][\A name \in MgrNames, after \in MgrNames \cup {NoBranch} :
          (cmd = "manager" /\ MgrDone(AddBranch(stk, name, after))) =>
              IF name \in BranchNames(stk) THEN result' = "error" /\ stk' = stk
              ELSE IF after = NoBranch \/ after = Base
              THEN /\ result' = "ok"
                   /\ NameSeq(stk') = <<name>> \o NameSeq(stk)
              ELSE after \in BranchNames(stk) =>
                      /\ result' = "ok"
                      /\ NameSeq(stk') =
                            SubSeq(NameSeq(stk), 1, FindBranch(stk, after) + 1)
                            \o <<name>>
                            \o SubSeq(NameSeq(stk), FindBranch(stk, after) + 2, Len0(stk))]_vars


\* C21: MoveBranch(stack, name, after) with after = name, for a name in the
\* stack, succeeds and leaves the branches and their PR records as they
\* were.
C21_MoveAfterItself ==
    [][\A name \in MgrNames :
          (cmd = "manager" /\ name \in BranchNames(stk)
             /\ MgrDone(MoveBranch(stk, name, name))) =>
              (result' = "ok" /\ stk'.branches = stk.branches)]_vars


(***************************************************************************)
(* One mutation of a stack in any state the manager can leave it in, with  *)
(* the timestamps and the snapshot (internal/stack/manager.go:75-215).     *)
(* RemoveBranch can follow it as a second call.                            *)
(***************************************************************************)
\* the sequences without repetition over S
DistinctSeqs(S) ==
    {q \in UNION {[1..n -> S] : n \in 0..Cardinality(S)} :
        \A a, b \in DOMAIN q : a # b => q[a] # q[b]}

\* TakeSnapshot as a call: nothing is assigned before every SHA is read,
\* assigning the snapshot as soon as the map exists
TryTakeSnapshotAssignsFirst(s, r) ==
    [err |-> TakeSnapshotFails(s, r), stack |-> TakeSnapshot(s, r)]

\* TakeSnapshot as a call: the error it returns and the stack it leaves
TryTakeSnapshot(s, r) ==
    IF TakeSnapshotFails(s, r) THEN [err |-> TRUE, stack |-> s]
    ELSE [err |-> FALSE, stack |-> TakeSnapshot(s, r)]

\* a mutation that leaves Updated alone
TouchKeeps(s, t) == s

\* stack.Updated = time.Now()
Touch(s, t) == [s EXCEPT !.updated = t]

InitMutation ==
    \E names \in DistinctSeqs(Names), withPR, snap \in BOOLEAN,
       missing \in {{}} \cup {{b} : b \in Refs} :
        /\ cmd = "mutation"
        /\ flags = NoFlags
        /\ pc = "ready"
        /\ result = "ok"
        /\ refs = [b \in Refs |-> IF b \in missing THEN 0 ELSE 1]
        /\ stk = [branches |-> [k \in DOMAIN names |->
                                  [name |-> names[k],
                                   pr |-> IF withPR
                                          THEN [number |-> PRNumber(names[k]),
                                                state |-> "open"]
                                          ELSE NoPR]],
                  snapshot |-> IF snap
                               THEN [taken |-> TRUE,
                                     refs |-> [n \in {Base} \cup {names[k] : k \in DOMAIN names}
                                                 |-> 1]]
                               ELSE NoSnapshot,
                  created |-> 1,
                  updated |-> 2]
        /\ disk = stk
        /\ head = Base
        /\ rebaseInProgress = FALSE
        /\ provider = FALSE
        /\ mergedBranches = << >>
        /\ closedBranches = << >>
        /\ i = 0
        /\ originalBranch = NoBranch
        /\ startIdx = 0
        /\ endIdx = 0 - 1
        /\ trace = << >>
        /\ remoteBase = NoRemoteBase
        /\ branchInfos = << >>
        /\ files = [n \in StackNames |-> NoFile]
        /\ current = NoCurrent
        /\ now = 3
        /\ h = [op |-> "none", name |-> NoBranch, after |-> NoBranch,
                before |-> stk, removed |-> NoBranch, cleared |-> FALSE]

\* a call that ends with stack.Updated = time.Now() and Save when it has not
\* returned an error before
MutDone(r) ==
    /\ stk' = IF r.err THEN r.stack ELSE Touch(r.stack, now)
    /\ disk' = IF r.err THEN disk ELSE stk'
    /\ now' = IF r.err THEN now ELSE now + 1
    /\ result' = IF r.err THEN "error" ELSE "ok"
    /\ UNCHANGED <<submitVars, files, current, cmd, flags, refs, head, rebaseInProgress,
                   provider, mergedBranches, closedBranches, i, originalBranch,
                   startIdx, endIdx, trace>>

\* the first call
MutFirst(op, name, after) ==
    /\ cmd = "mutation"
    /\ pc = "ready"
    /\ pc' = "done"
    /\ h' = [op |-> op, name |-> name, after |-> after, before |-> stk,
             removed |-> NoBranch, cleared |-> FALSE]

MutAddBranch ==
    \E name \in Names, after \in MgrNames \cup {NoBranch} :
        /\ MutFirst("add", name, after)
        /\ MutDone(AddBranch(stk, name, after))

MutAppendBranch ==
    \E name \in Names :
        /\ MutFirst("append", name, NoBranch)
        /\ MutDone(AppendBranch(stk, name))

MutMoveBranch ==
    \E name \in Names, after \in MgrNames \cup {NoBranch} :
        /\ MutFirst("move", name, after)
        /\ MutDone(MoveBranch(stk, name, after))

MutUpdatePR ==
    \E name \in Names :
        \E pr \in {NoPR, [number |-> PRNumber(name), state |-> "open"]} :
            /\ MutFirst("updatePR", name, NoBranch)
            /\ MutDone([err |-> ~HasBranch(stk, name), stack |-> UpdatePR(stk, name, pr)])

\* RemoveBranch, as the first call or after it
MutRemoveBranch ==
    \E name \in Names :
        /\ cmd = "mutation"
        /\ \/ MutFirst("remove", name, NoBranch)
           \/ /\ pc = "done"
              /\ pc' = "undone"
              /\ h' = [h EXCEPT !.removed = name]
        /\ MutDone([err |-> ~HasBranch(stk, name), stack |-> RemoveBranch(stk, name)])

\* TakeSnapshot and ClearSnapshot save the stack but leave Updated alone
MutSnapshotDone(r) ==
    /\ stk' = r.stack
    /\ disk' = IF r.err THEN disk ELSE r.stack
    /\ result' = IF r.err THEN "error" ELSE "ok"
    /\ UNCHANGED <<storeVars, submitVars, cmd, flags, refs, head, rebaseInProgress,
                   provider, mergedBranches, closedBranches, i, originalBranch,
                   startIdx, endIdx, trace>>

MutTakeSnapshot ==
    /\ MutFirst("takeSnapshot", NoBranch, NoBranch)
    /\ MutSnapshotDone(TryTakeSnapshot(stk, refs))

\* ClearSnapshot, as the first call or after it
MutClearSnapshot ==
    /\ cmd = "mutation"
    /\ \/ MutFirst("clearSnapshot", NoBranch, NoBranch)
       \/ /\ pc = "done"
          /\ pc' = "undone"
          /\ h' = [h EXCEPT !.cleared = TRUE]
    /\ MutSnapshotDone([err |-> FALSE, stack |-> ClearSnapshot(stk)])

NextMutation ==
    \/ MutAddBranch
    \/ MutAppendBranch
    \/ MutMoveBranch
    \/ MutUpdatePR
    \/ MutRemoveBranch
    \/ MutTakeSnapshot
    \/ MutClearSnapshot

SpecMutation == InitMutation /\ [][NextMutation]_vars

\* the keys of the snapshot's refs
SnapshotKeys(s) == DOMAIN s.snapshot.refs

\* C22: in every state reached after a successful mutation in which the
\* stack has a snapshot, the keys of snapshot.refs are the base and the
\* names in branches.
C22_SnapshotKeysFollow ==
    (cmd = "mutation" /\ pc # "ready" /\ result = "ok" /\ stk.snapshot.taken) =>
        SnapshotKeys(stk) = {Base} \cup BranchNames(stk)

\* C23: when the SHA lookup fails for the base or for a branch, TakeSnapshot
\* returns an error, the snapshot of the stack in memory is what it was
\* before the call and the stack file is not written.
C23_TakeSnapshotFailsAtomically ==
    (cmd = "mutation" /\ pc = "done" /\ h.op = "takeSnapshot"
       /\ TakeSnapshotFails(h.before, refs)) =>
        /\ result = "error"
        /\ stk.snapshot = h.before.snapshot
        /\ disk = h.before

\* a lookup failed for a stack that held an earlier snapshot
C23_Witness ==
    /\ cmd = "mutation"
    /\ pc = "done"
    /\ h.op = "takeSnapshot"
    /\ result = "error"
    /\ h.before.snapshot.taken
    /\ Len0(h.before) >= 2

\* C28: AddBranch(stack, x, after) followed by RemoveBranch(stack, x), for x
\* not in the stack and after the empty name, the base or a branch of the
\* stack, restores the branches that held before the add.
C28_AddThenRemoveRestores ==
    (cmd = "mutation" /\ pc = "undone" /\ h.op = "add" /\ h.removed = h.name
       /\ h.name \notin BranchNames(h.before)
       /\ h.after \in {NoBranch, Base} \cup BranchNames(h.before)) =>
        /\ result = "ok"
        /\ stk.branches = h.before.branches
        /\ disk.branches = h.before.branches

\* a branch was put in the middle of the stack and removed again
C28_Witness ==
    /\ cmd = "mutation"
    /\ pc = "undone"
    /\ h.op = "add"
    /\ h.removed = h.name
    /\ h.name \notin BranchNames(h.before)
    /\ Len0(h.before) >= 2
    /\ h.after = At(h.before, 0).name
    /\ At(h.before, 0).pr # NoPR

Mutations == {"add", "append", "remove", "move", "updatePR"}

\* C29: every successful AddBranch, AppendBranch, RemoveBranch, MoveBranch
\* and UpdatePR advances Updated and writes the stack to the stack file;
\* Created does not change.
C29_UpdatedAdvances ==
    (cmd = "mutation" /\ pc = "done" /\ h.op \in Mutations /\ result = "ok") =>
        /\ stk.updated > h.before.updated
        /\ disk = stk
        /\ stk.created = h.before.created

\* a successful move
C29_Witness ==
    /\ cmd = "mutation"
    /\ pc = "done"
    /\ h.op = "move"
    /\ result = "ok"
    /\ stk.branches # h.before.branches


(***************************************************************************)
(* The store (internal/stack/storage.go) under the commands that create,   *)
(* select, delete and rename stacks: init, switch, delete, rename and      *)
(* Manager.Create.  A stack file is what yaml.Marshal made of a Stack; a   *)
(* write that is cut short leaves the file empty or partial, and the model *)
(* follows the repository no further.                                      *)
(***************************************************************************)
MaxNow == 5

\* os.WriteFile truncates the file, then writes: what the file holds when
\* the call is over or the process is gone
WriteOutcomes == {"complete", "empty", "partial"}

\* yaml.Marshal: the pointers tagged omitempty leave no key when nil
Marshal(s) ==
    [version |-> s.version, name |-> s.name, base |-> s.base,
     created |-> s.created, updated |-> s.updated,
     branches |-> [k \in DOMAIN s.branches |->
                     [name |-> s.branches[k].name,
                      pr |-> IF s.branches[k].pr = NoPR THEN << >>
                             ELSE <<s.branches[k].pr>>]],
     snapshot |-> IF s.snapshot.taken THEN <<s.snapshot.refs>> ELSE << >>]

\* an Unmarshal that does not read the snapshot key
UnmarshalWithoutSnapshot(d) ==
    [version |-> d.version, name |-> d.name, base |-> d.base,
     created |-> d.created, updated |-> d.updated,
     branches |-> [k \in DOMAIN d.branches |->
                     [name |-> d.branches[k].name,
                      pr |-> IF d.branches[k].pr = << >> THEN NoPR
                             ELSE d.branches[k].pr[1]]],
     snapshot |-> NoSnapshot]

\* yaml.Unmarshal: a key that is absent leaves the pointer nil
Unmarshal(d) ==
    [version |-> d.version, name |-> d.name, base |-> d.base,
     created |-> d.created, updated |-> d.updated,
     branches |-> [k \in DOMAIN d.branches |->
                     [name |-> d.branches[k].name,
                      pr |-> IF d.branches[k].pr = << >> THEN NoPR
                             ELSE d.branches[k].pr[1]]],
     snapshot |-> IF d.snapshot = << >> THEN NoSnapshot
                  ELSE [taken |-> TRUE, refs |-> d.snapshot[1]]]

NewStack(name, base, t) ==
    [version |-> 1, name |-> name, base |-> base, created |-> t, updated |-> t,
     branches |-> << >>, snapshot |-> NoSnapshot]

Exists(fs, name) == fs[name].exists

\* Save: EnsureDir, Marshal, os.WriteFile on <name>.yaml itself
Save(fs, stack, w) ==
    [fs EXCEPT ![stack.name] = [exists |-> TRUE, written |-> w, doc |-> Marshal(stack)]]

Load(fs, name) == Unmarshal(fs[name].doc)

Torn(fs) == \E n \in StackNames : fs[n].exists /\ fs[n].written # "complete"

\* a Create that takes the marker whatever it held
CurrentAfterCreateAlways(cur, name) == name

\* Create: the marker goes to the new stack when GetCurrent returns ""
CurrentAfterCreate(cur, name) == IF cur = NoCurrent THEN name ELSE cur

\* Manager.Create: the error, the files and the marker it leaves, the *Stack
Create(fs, cur, name, base, t, w) ==
    IF Exists(fs, name)
    THEN [err |-> TRUE, files |-> fs, current |-> cur, stack |-> NewStack(name, base, t)]
    ELSE IF w # "complete"
    THEN [err |-> TRUE, files |-> Save(fs, NewStack(name, base, t), w), current |-> cur,
          stack |-> NewStack(name, base, t)]
    ELSE [err |-> FALSE, files |-> Save(fs, NewStack(name, base, t), w),
          current |-> CurrentAfterCreate(cur, name), stack |-> NewStack(name, base, t)]

\* a Delete that leaves the marker alone
CurrentAfterDeleteKeeps(cur, name) == cur

\* Delete: the marker is removed when it names the deleted stack
CurrentAfterDelete(cur, name) == IF cur = name THEN NoCurrent ELSE cur

\* Storage.Delete
Delete(fs, cur, name) ==
    IF ~Exists(fs, name) THEN [err |-> TRUE, files |-> fs, current |-> cur]
    ELSE [err |-> FALSE, files |-> [fs EXCEPT ![name] = NoFile],
          current |-> CurrentAfterDelete(cur, name)]

\* Storage.SetCurrent for a name that is not empty
SetCurrent(fs, cur, name) ==
    IF ~Exists(fs, name) THEN [err |-> TRUE, current |-> cur]
    ELSE [err |-> FALSE, current |-> name]

\* Storage.Rename
Rename(fs, cur, oldName, newName, w) ==
    IF ~Exists(fs, oldName) THEN [err |-> TRUE, files |-> fs, current |-> cur]
    ELSE IF Exists(fs, newName) THEN [err |-> TRUE, files |-> fs, current |-> cur]
    ELSE LET stack == [Load(fs, oldName) EXCEPT !.name = newName]
             saved == Save(fs, stack, w)
         IN  IF w # "complete" THEN [err |-> TRUE, files |-> saved, current |-> cur]
             ELSE [err |-> FALSE, files |-> [saved EXCEPT ![oldName] = NoFile],
                   current |-> IF cur = oldName
                               THEN SetCurrent([saved EXCEPT ![oldName] = NoFile],
                                               cur, newName).current
                               ELSE cur]

\* a stack as an earlier command can have left it in its file
SampleStacks(name) ==
    {[version |-> 1, name |-> name, base |-> Base, created |-> 1, updated |-> 2,
      branches |-> InitStack(n, IF withPR THEN 1..n ELSE {}).branches,
      snapshot |-> IF snap THEN [taken |-> TRUE, refs |-> [b \in 0..n |-> 1]]
                   ELSE NoSnapshot] :
        n \in {0, MaxBranches}, withPR \in BOOLEAN, snap \in BOOLEAN}

SampleFiles(name) ==
    {NoFile} \cup {[exists |-> TRUE, written |-> "complete", doc |-> Marshal(st)] :
                      st \in SampleStacks(name)}

\* the branches init can be given as base: the last one does not exist
InitBases == {Base, 1, MaxBranches}

InitStore ==
    /\ cmd = "store"
    /\ flags = NoFlags
    /\ pc = "ready"
    /\ result = "ok"
    /\ disk = EmptyStack
    /\ stk = EmptyStack
    /\ refs = [b \in Refs |-> IF b = MaxBranches THEN 0 ELSE 1]
    /\ head \in {NoBranch, Base, 1}
    /\ rebaseInProgress = FALSE
    /\ provider = FALSE
    /\ mergedBranches = << >>
    /\ closedBranches = << >>
    /\ i = 0
    /\ originalBranch = NoBranch
    /\ startIdx = 0
    /\ endIdx = 0 - 1
    /\ trace = << >>
    /\ remoteBase = NoRemoteBase
    /\ branchInfos = << >>
    /\ files \in [StackNames -> UNION {SampleFiles(n) : n \in StackNames}]
    /\ \A n \in StackNames : files[n] \in SampleFiles(n)
    /\ current \in {NoCurrent} \cup {n \in StackNames : files[n].exists}
    /\ now = 3
    /\ h = [op |-> "none", name |-> NoCurrent, arg |-> NoCurrent,
            saved |-> files, cur |-> current]

\* a command of one process: it starts on intact files and records what it
\* was given and what it found (saved: the files before it, or before the
\* rename it undoes)
StoreStep(op, name, arg, fs, cur) ==
    /\ cmd = "store"
    /\ pc = "ready"
    /\ files' = fs
    /\ current' = cur
    /\ pc' = IF Torn(fs) THEN "torn" ELSE "ready"
    /\ h' = [op |-> op, name |-> name, arg |-> arg,
             saved |-> IF op = "renameBack" THEN h.saved ELSE files, cur |-> current]
    /\ UNCHANGED <<submitVars, cmd, flags, disk, stk, refs, head, rebaseInProgress,
                   provider, mergedBranches, closedBranches, i, originalBranch,
                   startIdx, endIdx, trace>>

\* Manager.Create
StoreCreate ==
    \E name \in StackNames, base \in InitBases, w \in WriteOutcomes :
        LET r == Create(files, current, name, base, now, w)
        IN  /\ now < MaxNow
            /\ StoreStep("create", name, base, r.files, r.current)
            /\ result' = IF r.err THEN "error" ELSE "ok"
            /\ now' = IF Exists(files, name) THEN now ELSE now + 1

\* init on the checked-out branch and on a stack of one branch whatever it is
InitBranchesAlways(c, base) == <<NewBranch(c)>>

\* runInit: the checked-out branch joins the stack unless it is the base
InitBranches(c, base) == IF c # base THEN <<NewBranch(c)>> ELSE << >>

\* stk init <name> --base <base>
StoreInit ==
    \E name \in StackNames, base \in InitBases, w1, w2 \in WriteOutcomes :
        /\ now < MaxNow
        /\ IF Exists(files, name) \/ refs[base] = 0 \/ head = NoBranch
           THEN /\ StoreStep("init", name, base, files, current)
                /\ result' = "error"
                /\ now' = now
           ELSE LET r == Create(files, current, name, base, now, w1)
                    added == Touch([r.stack EXCEPT !.branches = InitBranches(head, base)],
                                   now + 1)
                IN  IF r.err
                    THEN /\ StoreStep("init", name, base, r.files, r.current)
                         /\ result' = "error"
                         /\ now' = now + 1
                    ELSE IF InitBranches(head, base) = << >>
                    THEN /\ StoreStep("init", name, base, r.files,
                                      SetCurrent(r.files, r.current, name).current)
                         /\ result' = "ok"
                         /\ now' = now + 1
                    ELSE IF w2 # "complete"
                    THEN /\ StoreStep("init", name, base, Save(r.files, added, w2), r.current)
                         /\ result' = "error"
                         /\ now' = now + 2
                    ELSE /\ StoreStep("init", name, base, Save(r.files, added, w2),
                                      SetCurrent(Save(r.files, added, w2), r.current,
                                                 name).current)
                         /\ result' = "ok"
                         /\ now' = now + 2

\* stk switch <name>
StoreSwitch ==
    \E name \in StackNames :
        LET r == SetCurrent(files, current, name)
        IN  /\ StoreStep("switch", name, NoCurrent, files, r.current)
            /\ result' = IF r.err THEN "error" ELSE "ok"
            /\ now' = now

\* stk delete <name>
StoreDelete ==
    \E name \in StackNames :
        LET r == Delete(files, current, name)
        IN  /\ StoreStep("delete", name, NoCurrent, r.files, r.current)
            /\ result' = IF r.err THEN "error" ELSE "ok"
            /\ now' = now

\* stk rename <old> <new>
StoreRename ==
    \E oldName, newName \in StackNames, w \in WriteOutcomes :
        LET r == Rename(files, current, oldName, newName, w)
        IN  /\ StoreStep(IF h.op = "rename" /\ result = "ok"
                            /\ oldName = h.arg /\ newName = h.name
                         THEN "renameBack" ELSE "rename",
                         oldName, newName, r.files, r.current)
            /\ result' = IF r.err THEN "error" ELSE "ok"
            /\ now' = now

NextStore ==
    \/ StoreCreate
    \/ StoreInit
    \/ StoreSwitch
    \/ StoreDelete
    \/ StoreRename

SpecStore == InitStore /\ [][NextStore]_vars


\* C24: when a save is cut short at any point, the stack file holds the
\* complete new contents or the complete previous contents, never an empty
\* or partly written file.
C24_SaveIsAtomic == cmd = "store" => ~Torn(files)

\* the document of stack name
DocOf(fs, name) == fs[name].doc

\* every file but that of name is what it was before the command
OthersUntouched(name) == \A n \in StackNames \ {name} : files[n] = h.saved[n]

\* C25: Create(name, base) fails when the stack exists and leaves the files
\* and the marker as they were; otherwise it saves a stack with version 1
\* and no branches and makes it current exactly when there was no marker.
C25_CreateContract ==
    (cmd = "store" /\ h.op = "create") =>
        IF Exists(h.saved, h.name)
        THEN result = "error" /\ files = h.saved /\ current = h.cur
        ELSE ~Torn(files) =>
                /\ result = "ok"
                /\ Exists(files, h.name)
                /\ DocOf(files, h.name).version = 1
                /\ DocOf(files, h.name).name = h.name
                /\ DocOf(files, h.name).base = h.arg
                /\ DocOf(files, h.name).branches = << >>
                /\ OthersUntouched(h.name)
                /\ current = IF h.cur = NoCurrent THEN h.name ELSE h.cur

\* a stack was created while another one was current
C25_Witness ==
    /\ cmd = "store"
    /\ h.op = "create"
    /\ result = "ok"
    /\ h.cur # NoCurrent
    /\ current = h.cur
    /\ current # h.name

\* C26: after any sequence of create, switch, delete and rename the marker
\* is absent or names a stack whose file exists; deleting the current stack
\* clears it, deleting another stack leaves it, renaming the current stack
\* moves it to the new name, and switching to a missing stack fails and
\* leaves it.
C26_CurrentNamesAStack ==
    cmd = "store" =>
        /\ current = NoCurrent \/ Exists(files, current)
        /\ (h.op = "delete" /\ result = "ok") =>
              current = IF h.cur = h.name THEN NoCurrent ELSE h.cur
        /\ (h.op \in {"rename", "renameBack"} /\ result = "ok" /\ h.cur = h.name) =>
              current = h.arg
        /\ (h.op = "switch" /\ ~Exists(files, h.name)) =>
              result = "error" /\ current = h.cur

\* the current stack was deleted while another stack exists
C26_Witness ==
    /\ cmd = "store"
    /\ h.op = "delete"
    /\ result = "ok"
    /\ h.cur = h.name
    /\ current = NoCurrent
    /\ \E n \in StackNames : Exists(files, n)

\* the same file but for the updated timestamp
SameButUpdated(f, g) ==
    /\ f.exists = g.exists
    /\ f.exists =>
          /\ f.written = g.written
          /\ [f.doc EXCEPT !.updated = 0] = [g.doc EXCEPT !.updated = 0]

\* C27: a rename followed by the rename back leaves the stack files that
\* existed before, with their contents but possibly for updated; a rename
\* onto an existing name fails and changes no file.
C27_RenameBackRestores ==
    /\ (cmd = "store" /\ h.op = "renameBack" /\ result = "ok") =>
          \A n \in StackNames : SameButUpdated(files[n], h.saved[n])
    /\ (cmd = "store" /\ h.op = "rename" /\ Exists(h.saved, h.name)
          /\ Exists(h.saved, h.arg)) =>
          result = "error" /\ files = h.saved

\* a stack with PR records and a snapshot was renamed and renamed back
C27_Witness ==
    /\ cmd = "store"
    /\ h.op = "renameBack"
    /\ result = "ok"
    /\ Exists(files, h.arg)
    /\ DocOf(files, h.arg).snapshot # << >>
    /\ Len(DocOf(files, h.arg).branches) >= 2
    /\ DocOf(files, h.arg).branches[1].pr # << >>

\* C30: init <name> --base <b> run on branch c creates the stack with base b
\* and the branches [c], or none when c is b, and makes it current whatever
\* was current; it fails and creates nothing when the stack exists or b is
\* not a branch.
C30_InitContract ==
    (cmd = "store" /\ h.op = "init") =>
        IF Exists(h.saved, h.name) \/ refs[h.arg] = 0
        THEN result = "error" /\ files = h.saved /\ current = h.cur
        ELSE (head # NoBranch /\ ~Torn(files)) =>
                /\ result = "ok"
                /\ Exists(files, h.name)
                /\ DocOf(files, h.name).base = h.arg
                /\ DocOf(files, h.name).branches =
                      IF head # h.arg THEN <<[name |-> head, pr |-> << >>]>> ELSE << >>
                /\ OthersUntouched(h.name)
                /\ current = h.name

\* init took the marker from another stack and recorded the checked-out branch
C30_Witness ==
    /\ cmd = "store"
    /\ h.op = "init"
    /\ result = "ok"
    /\ h.cur # NoCurrent
    /\ h.cur # h.name
    /\ current = h.name
    /\ Len(DocOf(files, h.name).branches) = 1


(***************************************************************************)
(* GenerateStackSection on any list of branch infos                        *)
(* (internal/pr/provider.go:126-166).                                      *)
(***************************************************************************)
\* the states a PR record can carry into the renderer: the four of the tool
\* and one it does not know
RenderStates == PRStates \cup {"locked"}

InitRender ==
    \E n \in 0..MaxBranches : \E states \in [1..n -> {"none"} \cup RenderStates] :
        /\ cmd = "render"
        /\ flags = NoFlags
        /\ pc = "ready"
        /\ result = "running"
        /\ disk = EmptyStack
        /\ stk = EmptyStack
        /\ refs = [b \in Refs |-> 1]
        /\ head \in {NoBranch} \cup 1..n
        /\ rebaseInProgress = FALSE
        /\ provider = FALSE
        /\ mergedBranches = << >>
        /\ closedBranches = << >>
        /\ i = 0
        /\ originalBranch = NoBranch
        /\ startIdx = 0
        /\ endIdx = 0 - 1
        /\ trace = << >>
        /\ remoteBase = NoRemoteBase
        /\ branchInfos = [k \in 1..n |->
                            [name |-> k,
                             pr |-> IF states[k] = "none" THEN NoPR
                                    ELSE [number |-> PRNumber(k), state |-> states[k]]]]
        /\ NoStore
        /\ h = NoHistory

\* the call: head is the focused branch, trace receives the rows
Render ==
    /\ cmd = "render"
    /\ pc = "ready"
    /\ pc' = "rendered"
    /\ result' = "ok"
    /\ trace' = GenerateStackSection(branchInfos, head)
    /\ UNCHANGED <<storeVars, submitVars, cmd, flags, disk, stk, refs, head,
                   rebaseInProgress, provider, mergedBranches, closedBranches, i,
                   originalBranch, startIdx, endIdx, h>>

NextRender == Render

SpecRender == InitRender /\ [][NextRender]_vars

\* the status the table is to show for a state
ExpectedStatus(state) ==
    CASE state = "none" -> "Pending"
      [] state = "merged" -> "Merged"
      [] state = "closed" -> "Closed"
      [] state = "draft" -> "Draft"
      [] OTHER -> "Open"

\* C31: the renderer emits one row per branch in stack order, numbered from
\* 1; a row that is not the focused one shows Merged, Closed, Draft for
\* these states, Open for any other state and Pending without a PR; the
\* focused row is bold and shows 'This PR' whatever its PR.
C31_RendererRows ==
    (cmd = "render" /\ pc = "rendered") =>
        /\ Len(trace) = Len(branchInfos)
        /\ \A k \in 1..Len(trace) :
              /\ trace[k].num = k
              /\ trace[k].branch = branchInfos[k].name
              /\ IF branchInfos[k].name = head
                 THEN trace[k].bold /\ trace[k].status = "This PR"
                 ELSE /\ ~trace[k].bold
                      /\ trace[k].status = ExpectedStatus(branchInfos[k].pr.state)

\* a table whose focused branch has no PR, next to a PR in a state the tool
\* does not know
C31_Witness ==
    /\ cmd = "render"
    /\ pc = "rendered"
    /\ \E k \in 1..Len(trace) : branchInfos[k].name = head /\ branchInfos[k].pr = NoPR
    /\ \E k \in 1..Len(trace) :
          branchInfos[k].name # head /\ branchInfos[k].pr.state = "locked"


(***************************************************************************)
(* The state a provider's Get returns for what the forge reports           *)
(* (internal/pr/github.go:192-197, internal/pr/gitlab.go:174, 187-201).    *)
(***************************************************************************)
\* GitHub: state is open or closed, with the flags merged and draft
GitHubReplies == [state : {"open", "closed"}, merged : BOOLEAN, draft : BOOLEAN]

\* GitLab: state is opened, closed, merged or locked, with the flags draft
\* and work_in_progress
GitLabReplies ==
    [state : {"opened", "closed", "merged", "locked"}, draft : BOOLEAN, wip : BOOLEAN]

\* GitHubProvider.Get
GitHubState(r) ==
    IF r.merged THEN "merged" ELSE IF r.draft THEN "draft" ELSE r.state

\* GitLabProvider.mapState
MapState(state, isDraft) ==
    CASE state = "merged" -> "merged"
      [] state = "closed" -> "closed"
      [] state = "opened" -> IF isDraft THEN "draft" ELSE "open"
      [] OTHER -> state

\* GitLabProvider.Get
GitLabState(r) == MapState(r.state, r.draft \/ r.wip)

InitNormalize ==
    \E gh \in GitHubReplies, gl \in GitLabReplies :
        /\ cmd = "normalize"
        /\ flags = NoFlags
        /\ pc = "ready"
        /\ result = "running"
        /\ disk = EmptyStack
        /\ stk = EmptyStack
        /\ refs = [b \in Refs |-> 1]
        /\ head = Base
        /\ rebaseInProgress = FALSE
        /\ provider = TRUE
        /\ mergedBranches = << >>
        /\ closedBranches = << >>
        /\ i = 0
        /\ originalBranch = NoBranch
        /\ startIdx = 0
        /\ endIdx = 0 - 1
        /\ trace = << >>
        /\ remoteBase = NoRemoteBase
        /\ branchInfos = << >>
        /\ NoStore
        /\ h = [github |-> gh, gitlab |-> gl, githubState |-> "none",
                gitlabState |-> "none"]

NormalizeFrame ==
    UNCHANGED <<storeVars, submitVars, cmd, flags, pc, result, disk, stk, refs, head,
                rebaseInProgress, provider, mergedBranches, closedBranches, i,
                originalBranch, startIdx, endIdx, trace>>

GetGitHub ==
    /\ cmd = "normalize"
    /\ h.githubState = "none"
    /\ h' = [h EXCEPT !.githubState = GitHubState(h.github)]
    /\ NormalizeFrame

GetGitLab ==
    /\ cmd = "normalize"
    /\ h.gitlabState = "none"
    /\ h' = [h EXCEPT !.gitlabState = GitLabState(h.gitlab)]
    /\ NormalizeFrame

NextNormalize ==
    \/ GetGitHub
    \/ GetGitLab

SpecNormalize == InitNormalize /\ [][NextNormalize]_vars

\* what a reply says about the PR: open, closed or merged, and draft or not
GitHubCondition(r) ==
    [phase |-> IF r.merged THEN "merged" ELSE r.state, draft |-> r.draft]

GitLabCondition(r) ==
    [phase |-> IF r.state = "opened" THEN "open" ELSE r.state,
     draft |-> r.draft \/ r.wip]

\* C32: every state a provider's Get returns, for every combination of
\* reported state and flags, is one of open, draft, closed, merged, merged
\* going before draft and draft before the reported state; GitHub and
\* GitLab return the same state for the same condition of the PR.
C32_StatesNormalized ==
    cmd = "normalize" =>
        /\ h.githubState # "none" =>
              /\ h.githubState \in PRStates
              /\ h.github.merged => h.githubState = "merged"
              /\ (~h.github.merged /\ h.github.draft) => h.githubState = "draft"
        /\ h.gitlabState # "none" =>
              /\ h.gitlabState \in PRStates
              /\ h.gitlab.state = "merged" => h.gitlabState = "merged"
              /\ (h.gitlab.state # "merged" /\ (h.gitlab.draft \/ h.gitlab.wip)) =>
                    h.gitlabState = "draft"
        /\ (h.githubState # "none" /\ h.gitlabState # "none"
              /\ GitHubCondition(h.github) = GitLabCondition(h.gitlab)) =>
              h.githubState = h.gitlabState


(***************************************************************************)
(* stk push (internal/cli/sync.go:167-201) and stk pr create               *)
(* (cli/pr.go, runPRCreate).  h.arg is the branch given on the command     *)
(* line, NoBranch when none; h.branches the names the command works on.    *)
(***************************************************************************)
InitPushCreate ==
    \E n \in 0..MaxBranches : \E withPR \in SUBSET (1..n) :
        /\ cmd \in {"push", "prCreate"}
        /\ flags = NoFlags
        /\ pc = "start"
        /\ result = "running"
        /\ disk = InitStack(n, withPR)
        /\ stk = EmptyStack
        /\ refs = [b \in Refs |-> IF b <= n THEN 1 ELSE 0]
        /\ head = Base
        /\ rebaseInProgress = FALSE
        /\ provider \in BOOLEAN
        /\ mergedBranches = << >>
        /\ closedBranches = << >>
        /\ i = 0
        /\ originalBranch = NoBranch
        /\ startIdx = 0
        /\ endIdx = 0 - 1
        /\ trace = << >>
        /\ remoteBase = NoRemoteBase
        /\ branchInfos = << >>
        /\ NoStore
        /\ h \in [arg : {NoBranch, Base, Unknown} \cup 1..n, branches : {<< >>}]

\* runPush up to its loop: the branches to push
PushStart ==
    /\ cmd = "push"
    /\ pc = "start"
    /\ stk' = disk
    /\ i' = 0
    /\ IF h.arg # NoBranch
       THEN IF ~HasBranch(disk, h.arg) /\ h.arg # Base
            THEN Finish("error") /\ h' = h
            ELSE pc' = "push" /\ result' = result /\ h' = [h EXCEPT !.branches = <<h.arg>>]
       ELSE IF Len0(disk) = 0
            THEN Finish("ok") /\ h' = h
            ELSE pc' = "push" /\ result' = result /\ h' = [h EXCEPT !.branches = NameSeq(disk)]
    /\ UNCHANGED <<storeVars, submitVars, cmd, flags, disk, refs, head, rebaseInProgress,
                   provider, mergedBranches, closedBranches, originalBranch, startIdx,
                   endIdx, trace>>

\* one iteration of runPush's loop
PushBranch ==
    /\ cmd = "push"
    /\ pc = "push"
    /\ IF i >= Len(h.branches)
       THEN Finish("ok") /\ UNCHANGED <<i, trace>>
       ELSE /\ Log(Push(h.branches[i + 1], TRUE))
            /\ \E pushed \in BOOLEAN :
                 IF pushed THEN pc' = pc /\ result' = result /\ i' = i + 1
                 ELSE Finish("error") /\ i' = i
    /\ UNCHANGED <<storeVars, submitVars, cmd, flags, disk, stk, refs, head,
                   rebaseInProgress, provider, mergedBranches, closedBranches,
                   originalBranch, startIdx, endIdx, h>>

\* runPRCreate up to its loop: the provider, the branches, the branch infos
PRCreateStart ==
    /\ cmd = "prCreate"
    /\ pc = "start"
    /\ stk' = disk
    /\ i' = 0
    /\ IF ~provider
       THEN Finish("error") /\ UNCHANGED <<h, branchInfos>>
       ELSE IF h.arg # NoBranch /\ FindBranch(disk, h.arg) < 0
       THEN Finish("error") /\ UNCHANGED <<h, branchInfos>>
       ELSE /\ pc' = "create"
            /\ result' = result
            /\ h' = [h EXCEPT !.branches = IF h.arg # NoBranch THEN <<h.arg>>
                                           ELSE NameSeq(disk)]
            /\ branchInfos' = CollectBranchInfos(disk)
    /\ UNCHANGED <<storeVars, remoteBase, cmd, flags, disk, refs, head, rebaseInProgress,
                   provider, mergedBranches, closedBranches, originalBranch, startIdx,
                   endIdx, trace>>

\* one iteration of runPRCreate's loop: skip, adopt, or push and create
PRCreateBranch ==
    /\ cmd = "prCreate"
    /\ pc = "create"
    /\ IF i >= Len(h.branches)
       THEN Finish("ok") /\ UNCHANGED <<i, stk, disk, trace, branchInfos>>
       ELSE LET idx == FindBranch(stk, h.branches[i + 1])
                branch == At(stk, idx)
            IN  /\ pc' = pc
                /\ result' = result
                /\ i' = i + 1
                /\ IF HasPR(branch)
                   THEN UNCHANGED <<stk, disk, trace, branchInfos>>
                   ELSE \E found \in {"none", "err", "open", "draft"} :
                     IF Adopts(found)
                     THEN /\ Log(<<"getByBranch", branch.name, found>>)
                          /\ stk' = UpdatePR(stk, branch.name,
                                             [number |-> AdoptedNumber(branch.name),
                                              state |-> found])
                          /\ disk' = stk'
                          /\ UNCHANGED branchInfos
                     ELSE LET body == GenerateStackSection(branchInfos, branch.name)
                              newPR == [number |-> CreatedNumber(branch.name),
                                        state |-> "open"]
                              lookup == <<"getByBranch", branch.name, found>>
                              push == Push(branch.name, TRUE)
                              create == <<"create", branch.name, CreateBase(stk, idx), body>>
                          IN  \E pushed, created \in BOOLEAN :
                                IF ~pushed
                                THEN /\ trace' = trace \o <<lookup, push>>
                                     /\ UNCHANGED <<stk, disk, branchInfos>>
                                ELSE IF ~created
                                THEN /\ trace' = trace \o <<lookup, push, create>>
                                     /\ UNCHANGED <<stk, disk, branchInfos>>
                                ELSE /\ trace' = trace \o <<lookup, push, create>>
                                     /\ stk' = UpdatePR(stk, branch.name, newPR)
                                     /\ disk' = stk'
                                     /\ branchInfos' = SetInfo(branchInfos, i, newPR)
    /\ UNCHANGED <<storeVars, remoteBase, cmd, flags, refs, head, rebaseInProgress,
                   provider, mergedBranches, closedBranches, originalBranch, startIdx,
                   endIdx, h>>

NextPushCreate ==
    \/ PushStart
    \/ PushBranch
    \/ PRCreateStart
    \/ PRCreateBranch

SpecPushCreate == InitPushCreate /\ [][NextPushCreate]_vars

\* C33: submit is the only command that pushes branches or creates PRs; no
\* other command issues a git push or a create call to the forge.
C33_OnlySubmitPushesOrCreates ==
    cmd # "submit" =>
        \A k \in 1..Len(trace) : trace[k][1] \notin {"push", "create"}


(***************************************************************************)
(* The engine started after a run that was interrupted: the stack file     *)
(* still holds that run's snapshot and the first branches are rebased      *)
(* (SHA 2 instead of 1); a stopped rebase may still be in progress.        *)
(***************************************************************************)
InitResume ==
    \E n \in 1..MaxBranches : \E rebased \in 1..n :
        /\ cmd = "rebase"
        /\ flags \in RebaseFlags(n)
        /\ pc = "start"
        /\ result = "running"
        /\ disk = TakeSnapshot(InitStack(n, {}), [b \in Refs |-> IF b <= n THEN 1 ELSE 0])
        /\ stk = EmptyStack
        /\ refs = [b \in Refs |-> IF b > n THEN 0 ELSE IF b \in 1..rebased THEN 2 ELSE 1]
        /\ head \in {Base} \cup 1..n
        /\ rebaseInProgress \in BOOLEAN
        /\ provider = FALSE
        /\ mergedBranches = << >>
        /\ closedBranches = << >>
        /\ i = 0
        /\ originalBranch = NoBranch
        /\ startIdx = 0
        /\ endIdx = 0 - 1
        /\ trace = << >>
        /\ remoteBase = NoRemoteBase
        /\ branchInfos = << >>
        /\ NoStore
        /\ h = [NoHistory EXCEPT !.head = head, !.branches = [k \in 1..n |-> k],
                                 !.persisted = disk.snapshot]

NextResume ==
    \/ RebaseStart
    \/ EngineSnapshot
    \/ EngineRebase
    \/ EngineRollback
    \/ EngineFinish

SpecResume == InitResume /\ [][NextResume]_vars

\* C34: after a run that was interrupted with its snapshot persisted and
\* some branches rebased, the next engine run restores every branch but the
\* base to the SHA of the persisted snapshot and never puts a snapshot of
\* the partly rebased branches in its place.
C34_PersistedSnapshotUsed ==
    (h.persisted.taken /\ h.engine) =>
        /\ disk.snapshot.taken => disk.snapshot = h.persisted
        /\ pc = "done" =>
              \A b \in DOMAIN h.persisted.refs \ {Base} : refs[b] = h.persisted.refs[b]

\* C35: rollback clears the snapshot from the stack file only when every
\* branch of the snapshot but the base was reset to its SHA; when a reset
\* failed the snapshot stays.
C35_SnapshotKeptWhenResetFails ==
    (h.engine /\ h.rolledBack /\ h.resetFailed) => disk.snapshot.taken


\* C36: a failing AddBranch, RemoveBranch, MoveBranch or UpdatePR leaves the
\* stack in memory and the stack file as they were before the call.
C36_FailedCallChangesNothing ==
    (pc = "done" /\ h.op \in {"add", "remove", "move", "updatePR"} /\ result = "error") =>
        /\ stk = h.before
        /\ disk = h.before

\* C37: TakeSnapshot and ClearSnapshot change nothing but the snapshot:
\* name, base, branches, PR records and Updated stay, in memory and in the
\* file, so TakeSnapshot followed by ClearSnapshot leaves the file as it was
\* before the snapshot was taken.
C37_SnapshotCallsTouchOnlySnapshot ==
    /\ (pc = "done" /\ h.op \in {"takeSnapshot", "clearSnapshot"}) =>
          /\ [stk EXCEPT !.snapshot = h.before.snapshot] = h.before
          /\ [disk EXCEPT !.snapshot = h.before.snapshot] = h.before
    /\ (pc = "undone" /\ h.op = "takeSnapshot" /\ h.cleared) =>
          /\ disk = [h.before EXCEPT !.snapshot = NoSnapshot]
          /\ stk = disk

\* a snapshot taken of a stack that had none, then cleared
C37_Witness ==
    /\ pc = "undone"
    /\ h.op = "takeSnapshot"
    /\ h.cleared
    /\ result = "ok"
    /\ ~h.before.snapshot.taken
    /\ \A n \in {Base} \cup BranchNames(h.before) : refs[n] # 0
    /\ Len(h.before.branches) >= 2
    /\ \E k \in DOMAIN h.before.branches : h.before.branches[k].pr # NoPR
    /\ disk = h.before

\* sync is past its merged and closed steps
PastClosedStep ==
    /\ cmd = "sync"
    /\ pc \in {"reload", "snapshot", "rebase", "rollback", "done"}
    /\ provider

\* C38: once sync, with a provider and no failed Get, is past its merged and
\* closed steps, no branch of the stack file has a PR record in state merged
\* or closed, whether the rebase then succeeds or fails.
C38_NoMergedOrClosedLeft ==
    (PastClosedStep /\ \A k \in 1..Len(trace) : ~(trace[k][1] = "get" /\ trace[k][3] = "err")) =>
        \A k \in 1..Len(disk.branches) : disk.branches[k].pr.state \notin {"merged", "closed"}

\* a sync that found a merged and a closed PR and whose rebase was rolled back
C38_Witness ==
    /\ PastClosedStep /\ pc = "done" /\ result = "error" /\ h.rolledBack
    /\ \A k \in 1..Len(trace) : ~(trace[k][1] = "get" /\ trace[k][3] = "err")
    /\ \E k \in 1..Len(trace) : trace[k][1] = "get" /\ trace[k][3] = "merged"
    /\ \E k \in 1..Len(trace) : trace[k][1] = "get" /\ trace[k][3] = "closed"
    /\ Len(disk.branches) = 2
    /\ \E k \in 1..Len(disk.branches) : disk.branches[k].pr.state = "open"

\* C39: when the rebase at the end of sync fails and is rolled back, what
\* sync did to the stack before stays: the merged branches are gone, the
\* closed PR records are cleared, the other PR records carry the state the
\* forge reported; the retargets sent are not followed by any other forge
\* call; and the stack file has no duplicate name and no snapshot.
C39_RollbackKeepsMetadata ==
    (cmd = "sync" /\ pc = "done" /\ h.rolledBack) =>
        /\ result = "error"
        /\ NameSeq(disk) = SurvivingNames
        /\ \A k \in 1..Len(disk.branches) :
              LET b == disk.branches[k]
              IN  /\ b.name \in ClosedReported => b.pr = NoPR
                  /\ b.name \in Reported("open") =>
                        b.pr = [number |-> PRNumber(b.name), state |-> "open"]
        /\ \A k \in 1..Len(trace) :
              trace[k][1] = "snapshot" =>
                 \A m \in (k + 1)..Len(trace) : trace[m][1] \in {"rebase", "rollback"}
        /\ NoDuplicates(disk)
        /\ ~disk.snapshot.taken

\* a rolled-back sync that had removed a merged branch, retargeted its
\* child's PR and cleared a closed PR record
C39_Witness ==
    /\ cmd = "sync" /\ pc = "done" /\ h.rolledBack
    /\ h.branches = <<1, 2, 3>>
    /\ MergedReported = {1}
    /\ ClosedReported = {3}
    /\ Reported("open") = {2}
    /\ \E k \in 1..Len(trace) : trace[k] = <<"retarget", PRNumber(2), Base>>
    /\ NameSeq(disk) = <<2, 3>>
    /\ At(disk, 1).pr = NoPR

====
